---- MODULE Spec2Model ----
(***************************************************************************)
(* portzap: the kill command (commands/kill.rs) driving the process        *)
(* terminator (killer.rs) against an operating system whose processes may  *)
(* exit or change credentials at any moment; the port scanner backends     *)
(* (platform/*.rs) against the host's sockets and descriptors; and the     *)
(* port token parser (process.rs).                                         *)
(*                                                                         *)
(* Time is counted in milliseconds since the graceful phase began.         *)
(***************************************************************************)
EXTENDS Integers, Sequences, FiniteSets

VARIABLES
    opts,         \* KillOptions of the invocation (commands/kill.rs)
    os,           \* the host's state of the target process: "alive" | "denied" | "gone"
    pc,           \* position of the kill command:
                  \* "scan" | "kill" | "poll" | "sleep" | "returned" | "done"
    portIdx,      \* index of the current port in the expanded port list
    processes,    \* the processes of the current port that are to be killed
    procIdx,      \* index of the current process in processes
    result,       \* the KillResult kill_process returned, None until it returns
    results,      \* the KillResults of the current port
    all_success,  \* the accumulator of execute
    elapsed,      \* start.elapsed() of the current graceful phase, in ms
    ret,          \* what execute returned: "none" | "Ok(true)" | "Ok(false)" | "Err"
    exit_code,    \* exit status of the program, -1 while it runs
    scanned,      \* history: what the scan of the current port returned
    attempted,    \* history: the processes kill_process was called with, this port
    sent,         \* history: the signal sends of the current attempt
    probes,       \* history: the liveness probes of the current attempt
    scans,        \* history: number of scans that returned Ok
    any_failed,   \* history: some attempt of the invocation returned success = false
    exited_at,    \* history: None, or the value of elapsed when the target exited
    backend,      \* the scanner create_scanner selects: "linux" | "macos" | "windows"
    host,         \* the host's sockets and the descriptors of its processes
    call,         \* the last scanner call: its input, the read failures it met, its result
    released,     \* history: the port whose only socket was released since the last call, or 0
    token,        \* the port token handed to PortSpec::parse
    parsed,       \* None, or what PortSpec::parse returned for token
    expanded      \* None, or Some(what expand returned for the parsed PortSpec)

vars == <<opts, os, pc, portIdx, processes, procIdx, result, results, all_success, elapsed,
          ret, exit_code, scanned, attempted, sent, probes, scans, any_failed, exited_at>>

scanVars == <<backend, host, call, released>>
parseVars == <<token, parsed, expanded>>

VARIABLES
    cmd,          \* the subcommand main dispatches to:
                  \* "kill" | "list" | "watch" | "wait" | "free", "none" when no command runs
    args,         \* the arguments of the subcommand
    cpc,          \* position of the command:
                  \* "main" | "loop" | "scan" | "kill" | "decide" | "sleep" | "exit"
    running,      \* the AtomicBool shared with the signal handlers (watch.rs, wait.rs)
    clock,        \* start.elapsed(), in ms
    ports,        \* the expanded port list of kill, list and watch
    port_i,       \* index of the current port in ports; the current port of free
    pending,      \* the processes of the current port that are still to be killed
    is_free,      \* what the last scan of wait observed, None before it
    outcome,      \* what the command returned, its exit code and its last message
    failures,     \* some attempt of the command failed
    nscans,       \* number of scans performed so far
    nsignals,     \* number of attempts that sent a signal so far
    observations, \* free: the observations of the scans, in order
    met_scans,    \* wait: number of scans that observed the requested condition
    signalled,    \* a SIGINT or SIGTERM was delivered to the command
    rechecked     \* the loop condition was evaluated after such a delivery

cmdVars == <<cmd, args, cpc, running, clock, ports, port_i, pending, is_free, outcome, failures,
             nscans, nsignals, observations,
             met_scans, signalled, rechecked>>

VARIABLES
    app,          \* the App of the TUI (tui.rs), a record of its fields
    event,        \* the last thing the TUI did: "new", "zap", "auto", or what a key was to it
    attempts,     \* the processes that the last event called kill_process on, in order
    picked,       \* the (index, process) pairs of the multi-selection, as toggled
    asked         \* the processes targeted when the confirmation dialog was opened

tuiVars == <<app, event, attempts, picked, asked>>

VARIABLES
    upid,         \* ProcessInfo.pid, a u32: its top bit and its low 31 bits
    syscall       \* the last kill(2) call made for it

sysVars == <<upid, syscall>>

----------------------------------------------------------------------------
(* Bounds of the model *)

MaxPid == 2
MaxPort == 2
MaxTimeoutSecs == 1
MaxOverruns == 1
MaxInode == 2
MaxFds == 2
MaxAtoms == 3

Pids == 1..MaxPid
PortNumbers == 1..MaxPort

(* Program constants *)

PollIntervalMs == 100
KillDelayMs == 100
MillisPerSec == 1000

----------------------------------------------------------------------------
(* process.rs *)

KillSignal == {"Term", "Kill", "Int", "Hup"}

\* impl fmt::Display for KillSignal
ToString(signal) ==
    CASE signal = "Term" -> "SIGTERM"
      [] signal = "Kill" -> "SIGKILL"
      [] signal = "Int"  -> "SIGINT"
      [] signal = "Hup"  -> "SIGHUP"

None == <<>>
Some(x) == <<x>>

ProcessInfo(pid, port) == [pid |-> pid, port |-> port, protocol |-> "Tcp"]

\* mutant: the error string is left out of the result
KillResult_Mut(process, success, signal_sent, error) ==
    [process |-> process, success |-> success, signal_sent |-> signal_sent, error |-> <<>>]

KillResult(process, success, signal_sent, error) ==
    [process |-> process, success |-> success, signal_sent |-> signal_sent, error |-> error]

Single(p) == [kind |-> "Single", start |-> p, end |-> p]
Range(a, b) == [kind |-> "Range", start |-> a, end |-> b]

PortSpecs ==
    {Single(p) : p \in PortNumbers}
        \cup {Range(r[1], r[2]) : r \in {q \in PortNumbers \X PortNumbers : q[1] <= q[2]}}

\* mutant: the range stops before its end
Expand_Mut(ps) ==
    IF ps.kind = "Single"
    THEN <<ps.start>>
    ELSE [i \in 1..(ps.end - ps.start) |-> ps.start + i - 1]

\* PortSpec::expand
Expand(ps) ==
    IF ps.kind = "Single"
    THEN <<ps.start>>
    ELSE [i \in 1..(ps.end - ps.start + 1) |-> ps.start + i - 1]

RECURSIVE FlatMapExpand(_)
FlatMapExpand(specs) ==
    IF specs = <<>> THEN <<>> ELSE Expand(Head(specs)) \o FlatMapExpand(Tail(specs))

\* let ports: Vec<u16> = opts.ports.iter().flat_map(|ps| ps.expand()).collect();
Ports == FlatMapExpand(opts.ports)

----------------------------------------------------------------------------
(* killer.rs: the signal primitives *)

\* kill(2) as the host answers it for a process in state st
SysKill(st) ==
    CASE st = "gone"   -> "ESRCH"
      [] st = "denied" -> "EPERM"
      [] OTHER         -> "OK"

\* the map_err closure of send_signal
MapErr(errno) ==
    IF errno = "EPERM" THEN "permission denied. Try running with sudo"
    ELSE IF errno = "ESRCH" THEN "process no longer exists"
    ELSE errno

\* mutant: a pid that an earlier call already signalled is not signalled again
SendSignal_Mut(pid, signal) ==
    IF results # <<>> THEN None
    ELSE IF SysKill(os) = "OK" THEN None ELSE Some(MapErr(SysKill(os)))

\* send_signal(pid, signal): Ok(()) is None, Err(e) is Some(e)
SendSignal(pid, signal) ==
    IF SysKill(os) = "OK" THEN None ELSE Some(MapErr(SysKill(os)))

\* is_process_alive(pid): signal 0, .is_ok()
IsProcessAlive(pid) == SysKill(os) = "OK"

GracefulTimeoutMs == opts.graceful_timeout_secs * MillisPerSec

----------------------------------------------------------------------------
(* interactive.rs *)

RECURSIVE SelectProcesses(_, _)
\* the entries of list whose index the user left ticked, in list order
SelectProcesses(list, ticked) ==
    IF list = <<>> THEN <<>>
    ELSE LET rest == SelectProcesses(Tail(list), {i - 1 : i \in ticked \ {1}})
         IN  IF 1 \in ticked THEN <<Head(list)>> \o rest ELSE rest

----------------------------------------------------------------------------
(* scanner: find_processes_by_port as the kill command sees it *)

RECURSIVE Ascending(_)
Ascending(S) ==
    IF S = {} THEN <<>>
    ELSE LET m == CHOOSE x \in S : \A y \in S : x <= y
         IN  <<m>> \o Ascending(S \ {m})

\* one record per process found bound to the port, in /proc order
ScanResult(found, port) ==
    [i \in 1..Cardinality(found) |-> ProcessInfo(Ascending(found)[i], port)]

----------------------------------------------------------------------------
(* errors.rs: Result *)

Ok(v) == [ok |-> TRUE, val |-> v]
Err(e) == [ok |-> FALSE, val |-> e]

----------------------------------------------------------------------------
(* the host as the scanner backends read it *)

Protocol == {"Tcp", "Udp"}

\* the kernel's socket tables: /proc/net/{tcp,tcp6,udp,udp6}
Tables == {"tcp", "tcp6", "udp", "udp6"}

Inodes == 1..MaxInode

\* an inode that is in no socket table: a file, a pipe, a unix socket
NoSocket == [table |-> "none", port |-> 0]

\* an internet socket: the table that lists it and its local port (0: not bound)
Sockets == [table : Tables, port : 0..MaxPort]

\* the descriptors of all processes, in the order the host enumerates them:
\* processes in the order of their first descriptor, and the descriptors of one
\* process in the order they have in the sequence
FdLists == UNION {[1..n -> [pid : Pids, inode : Inodes]] : n \in 0..MaxFds}

Hosts == [sockets : [Inodes -> Sockets \cup {NoSocket}], fds : FdLists]

NoCall == [op |-> "none"]

\* no scanner call is made and no token is parsed while the kill command runs
ScanIdle ==
    /\ backend = "linux"
    /\ host = [sockets |-> [i \in Inodes |-> NoSocket], fds |-> <<>>]
    /\ call = NoCall
    /\ released = 0

ParseIdle ==
    /\ token = <<>>
    /\ parsed = None
    /\ expanded = None

\* the TUI is not running
TuiIdle ==
    /\ app = [should_quit |-> TRUE]
    /\ event = "none"
    /\ attempts = <<>>
    /\ picked = {}
    /\ asked = {}

\* no signal primitive is exercised on its own
SysIdle ==
    /\ upid = [hi |-> 0, lo |-> 1]
    /\ syscall = [op |-> "none"]

\* what a command has returned: ret is "none" while it runs
Outcome(r, v, code, m) == [ret |-> r, val |-> v, exit_code |-> code, msg |-> m]

\* main is not dispatching any command
CmdIdle ==
    /\ cmd = "none"
    /\ args = [ports |-> <<>>]
    /\ cpc = "exit"
    /\ running = TRUE
    /\ clock = 0
    /\ ports = <<>>
    /\ port_i = 1
    /\ pending = <<>>
    /\ is_free = None
    /\ outcome = Outcome("none", None, -1, "")
    /\ failures = FALSE
    /\ nscans = 0
    /\ nsignals = 0
    /\ observations = <<>>
    /\ met_scans = 0
    /\ signalled = FALSE
    /\ rechecked = FALSE

----------------------------------------------------------------------------
Init ==
    /\ ScanIdle
    /\ ParseIdle
    /\ CmdIdle
    /\ TuiIdle
    /\ SysIdle
    /\ opts \in [ports : {<<s>> : s \in PortSpecs},
                 signal : KillSignal,
                 graceful : BOOLEAN,
                 graceful_timeout_secs : 0..MaxTimeoutSecs,
                 dry_run : BOOLEAN,
                 interactive : BOOLEAN]
    /\ os = "alive"
    /\ pc = "scan"
    /\ portIdx = 1
    /\ processes = <<>>
    /\ procIdx = 1
    /\ result = None
    /\ results = <<>>
    /\ all_success = TRUE
    /\ elapsed = 0
    /\ ret = "none"
    /\ exit_code = -1
    /\ scanned = <<>>
    /\ attempted = <<>>
    /\ sent = <<>>
    /\ probes = <<>>
    /\ scans = 0
    /\ any_failed = FALSE
    /\ exited_at = None

----------------------------------------------------------------------------
(* commands/kill.rs: execute, and main's use of its result *)

\* mutant: the accumulator takes the value of the last result
Accumulate_Mut(acc, r) == r.success

\* if !result.success { all_success = false; }
Accumulate(acc, r) == IF ~r.success THEN FALSE ELSE acc

\* kill_process returns r to the loop of execute
Return(r) ==
    /\ result' = Some(r)
    /\ pc' = "returned"
    /\ UNCHANGED <<scanVars, parseVars, cmdVars, tuiVars, sysVars, opts, os, portIdx, processes, procIdx, results, all_success,
                   ret, exit_code, scanned, scans, any_failed, exited_at>>

\* mutant: the loop over the processes ends at the first failed attempt
MoreProcesses_Mut == procIdx < Len(processes) /\ result[1].success

\* for process in &processes: is there a process after the current one
MoreProcesses == procIdx < Len(processes)

\* results.push(result), then the next process, or the next port. The next
\* target is a process that the scan found: what became of it since then is a
\* step of the host, taken before the attempt begins.
PushResult ==
    /\ pc = "returned"
    /\ results' = Append(results, result[1])
    /\ all_success' = Accumulate(all_success, result[1])
    /\ any_failed' = (any_failed \/ result[1].success = FALSE)
    /\ IF MoreProcesses
       THEN /\ procIdx' = procIdx + 1
            /\ pc' = "kill"
            /\ portIdx' = portIdx
       ELSE /\ procIdx' = procIdx
            /\ pc' = "scan"
            /\ portIdx' = portIdx + 1
    /\ result' = None
    /\ elapsed' = 0
    /\ sent' = <<>>
    /\ probes' = <<>>
    /\ os' = "alive"
    /\ exited_at' = None
    /\ UNCHANGED <<scanVars, parseVars, cmdVars, tuiVars, sysVars, opts, processes, ret, exit_code, scanned, attempted, scans>>

\* mutant: the processes are handled from the last one found to the first
Selected_Mut(list, ticked) ==
    LET l == IF opts.interactive THEN SelectProcesses(list, ticked) ELSE list
    IN  [i \in 1..Len(l) |-> l[Len(l) + 1 - i]]

\* what is left to kill after the optional interactive selection
Selected(list, ticked) ==
    IF opts.interactive THEN SelectProcesses(list, ticked) ELSE list

ScanPort ==
    /\ pc = "scan"
    /\ portIdx <= Len(Ports)
    /\ \/ \* scanner.find_processes_by_port(*port)? fails
          /\ ret' = "Err"
          /\ exit_code' = 1
          /\ pc' = "done"
          /\ processes' = <<>>
          /\ procIdx' = 1
          /\ results' = <<>>
          /\ scanned' = <<>>
          /\ attempted' = <<>>
          /\ UNCHANGED <<portIdx, scans>>
       \/ \E found \in SUBSET Pids :
          \E ticked \in SUBSET (1..Cardinality(found)) :
            LET list == ScanResult(found, Ports[portIdx])
                todo == Selected(list, ticked)
            IN  /\ opts.interactive \/ ticked = 1..Cardinality(found)
                /\ scanned' = list
                /\ scans' = scans + 1
                /\ processes' = todo
                /\ procIdx' = 1
                /\ results' = <<>>
                /\ attempted' = <<>>
                /\ IF todo = <<>>
                   THEN pc' = "scan" /\ portIdx' = portIdx + 1
                   ELSE pc' = "kill" /\ portIdx' = portIdx
                /\ UNCHANGED <<ret, exit_code>>
    /\ UNCHANGED <<scanVars, parseVars, cmdVars, tuiVars, sysVars, opts, os, result, all_success, elapsed, sent, probes, any_failed,
                   exited_at>>

\* Ok(all_success), and main: if !success { std::process::exit(1) }
ExecuteReturn ==
    /\ pc = "scan"
    /\ portIdx > Len(Ports)
    /\ ret' = IF all_success THEN "Ok(true)" ELSE "Ok(false)"
    /\ exit_code' = IF all_success THEN 0 ELSE 1
    /\ pc' = "done"
    /\ processes' = <<>>
    /\ procIdx' = 1
    /\ results' = <<>>
    /\ scanned' = <<>>
    /\ attempted' = <<>>
    /\ UNCHANGED <<scanVars, parseVars, cmdVars, tuiVars, sysVars, opts, os, portIdx, result, all_success, elapsed, sent, probes,
                   scans, any_failed, exited_at>>

----------------------------------------------------------------------------
(* killer.rs: kill_process *)

Target == processes[procIdx]

\* format!("{} (dry-run)", config.signal)
DryRunLabel(signal) == ToString(signal) \o " (dry-run)"

\* mutant: the dry-run test comes after the signal was sent
KillDryRun_Mut ==
    /\ pc = "kill"
    /\ opts.dry_run
    /\ attempted' = Append(attempted, processes[procIdx])
    /\ sent' = <<[signal |-> opts.signal,
                  error |-> SendSignal(processes[procIdx].pid, opts.signal), at |-> 0]>>
    /\ UNCHANGED <<elapsed, probes>>
    /\ Return(KillResult(processes[procIdx], TRUE,
                         ToString(opts.signal) \o " (dry-run)", None))

\* if config.dry_run { return KillResult { success: true, ... } }
KillDryRun ==
    /\ pc = "kill"
    /\ opts.dry_run
    /\ attempted' = Append(attempted, Target)
    /\ UNCHANGED <<elapsed, sent, probes>>
    /\ Return(KillResult(Target, TRUE, DryRunLabel(opts.signal), None))

\* mutant: the non-graceful path always sends SIGKILL
ForceSignal_Mut == "Kill"

\* force_kill
ForceSignal == opts.signal

ForceKill ==
    /\ pc = "kill"
    /\ ~opts.dry_run
    /\ ~opts.graceful
    /\ attempted' = Append(attempted, Target)
    /\ UNCHANGED <<elapsed, probes>>
    /\ LET e == SendSignal(Target.pid, ForceSignal)
       IN  /\ sent' = <<[signal |-> ForceSignal, error |-> e, at |-> 0]>>
           /\ Return(KillResult(Target, e = None, ToString(ForceSignal), e))

\* mutant: the graceful path starts with the configured signal
GracefulFirstSignal_Mut == opts.signal

\* graceful_kill, step 1: send SIGTERM
GracefulFirstSignal == "Term"

GracefulTerm ==
    /\ pc = "kill"
    /\ ~opts.dry_run
    /\ opts.graceful
    /\ attempted' = Append(attempted, Target)
    /\ UNCHANGED <<elapsed, probes>>
    /\ LET e == SendSignal(Target.pid, GracefulFirstSignal)
       IN  /\ sent' = <<[signal |-> GracefulFirstSignal, error |-> e, at |-> 0]>>
           /\ IF e # None
              THEN Return(KillResult(Target, FALSE, ToString(GracefulFirstSignal), e))
              ELSE /\ pc' = "poll"
                   /\ UNCHANGED <<scanVars, parseVars, cmdVars, tuiVars, sysVars, opts, os, portIdx, processes, procIdx, result, results,
                                  all_success, ret, exit_code, scanned, scans, any_failed,
                                  exited_at>>

\* mutant: the loop counts its iterations instead of reading the clock
WithinTimeoutByCount_Mut == Len(probes) * PollIntervalMs < GracefulTimeoutMs

\* mutant: the loop gives up one poll interval early
WithinTimeout_Mut == elapsed + PollIntervalMs < GracefulTimeoutMs

\* while start.elapsed() < config.graceful_timeout
WithinTimeout == elapsed < GracefulTimeoutMs

\* graceful_kill, step 2: the probe finds the process alive
PollAlive ==
    /\ pc = "poll"
    /\ WithinTimeout
    /\ IsProcessAlive(Target.pid)
    /\ probes' = Append(probes, SysKill(os))
    /\ pc' = "sleep"
    /\ UNCHANGED <<scanVars, parseVars, cmdVars, tuiVars, sysVars, opts, os, portIdx, processes, procIdx, result, results, all_success,
                   elapsed, ret, exit_code, scanned, attempted, sent, scans, any_failed,
                   exited_at>>

\* thread::sleep(d) started at time now: the thread sleeps for at least d, and
\* the scheduler may wake it up to MaxOverruns poll intervals late
SleepEnds(now, d) == {now + d + k * PollIntervalMs : k \in 0..MaxOverruns}

\* thread::sleep(poll_interval), then back to the loop condition
Sleep ==
    /\ pc = "sleep"
    /\ elapsed' \in SleepEnds(elapsed, PollIntervalMs)
    /\ pc' = "poll"
    /\ UNCHANGED <<scanVars, parseVars, cmdVars, tuiVars, sysVars, opts, os, portIdx, processes, procIdx, result, results, all_success,
                   ret, exit_code, scanned, attempted, sent, probes, scans, any_failed,
                   exited_at>>

\* graceful_kill, step 2: the probe finds the process not alive
PollDead ==
    /\ pc = "poll"
    /\ WithinTimeout
    /\ ~IsProcessAlive(Target.pid)
    /\ probes' = Append(probes, SysKill(os))
    /\ UNCHANGED <<elapsed, attempted, sent>>
    /\ Return(KillResult(Target, TRUE, ToString("Term"), None))

\* mutant: the label of an escalation names the last signal only
EscalationLabel_Mut == ToString("Kill")

\* format!("{} -> {}", KillSignal::Term, KillSignal::Kill)
EscalationLabel == ToString("Term") \o " -> " \o ToString("Kill")

\* graceful_kill, step 3: escalate to SIGKILL
Escalate ==
    /\ pc = "poll"
    /\ ~WithinTimeout
    /\ LET e == SendSignal(Target.pid, "Kill")
       IN  /\ sent' = Append(sent, [signal |-> "Kill", error |-> e, at |-> elapsed])
           /\ IF e = None
              THEN /\ elapsed' \in SleepEnds(elapsed, KillDelayMs)
                   /\ Return(KillResult(Target, TRUE, EscalationLabel, None))
              ELSE /\ elapsed' = elapsed
                   /\ Return(KillResult(Target, FALSE, ToString("Kill"), e))
    /\ UNCHANGED <<attempted, probes>>

----------------------------------------------------------------------------
(* the host *)

\* The host changes the state of the target process at any moment of an attempt.
\* (What happens to a process while no attempt addresses it is seen by the
\* command only in the scan, which may find any set of processes.)
Running == pc \in {"kill", "poll", "sleep"}

\* the process exits (on its own, or as the effect of a delivered signal)
ProcessExits ==
    /\ Running
    /\ os # "gone"
    /\ os' = "gone"
    /\ exited_at' = Some(elapsed)
    /\ UNCHANGED <<scanVars, parseVars, cmdVars, tuiVars, sysVars, opts, pc, portIdx, processes, procIdx, result, results, all_success,
                   elapsed, ret, exit_code, scanned, attempted, sent, probes, scans,
                   any_failed>>

\* the process changes its credentials: the caller may no longer signal it
CredentialChange ==
    /\ Running
    /\ os = "alive"
    /\ os' = "denied"
    /\ UNCHANGED <<scanVars, parseVars, cmdVars, tuiVars, sysVars, opts, pc, portIdx, processes, procIdx, result, results, all_success,
                   elapsed, ret, exit_code, scanned, attempted, sent, probes, scans,
                   any_failed, exited_at>>

----------------------------------------------------------------------------
Next ==
    \/ ScanPort
    \/ ExecuteReturn
    \/ PushResult
    \/ KillDryRun
    \/ ForceKill
    \/ GracefulTerm
    \/ PollAlive
    \/ Sleep
    \/ PollDead
    \/ Escalate
    \/ ProcessExits
    \/ CredentialChange

Spec == Init /\ [][Next]_vars

----------------------------------------------------------------------------
(* Vocabulary of the properties *)

Returned == pc = "returned"

\* the KillResult of the attempt that has just returned
R == result[1]

\* an attempt that took the graceful path / the non-graceful path
Graceful == ~opts.dry_run /\ opts.graceful
Forced == ~opts.dry_run /\ ~opts.graceful

LastSent == sent[Len(sent)]
LastProbe == probes[Len(probes)]

\* the result that reports an early exit: success, SIGTERM alone
TermOnlySuccess == R.success /\ R.signal_sent = "SIGTERM" /\ Len(sent) = 1

\* the signals that a signal_sent label names
LabelSignals(label) ==
    {s \in KillSignal :
        \/ label = ToString(s)
        \/ label = ToString(s) \o " (dry-run)"
        \/ \E t \in KillSignal : \/ label = ToString(s) \o " -> " \o ToString(t)
                                 \/ label = ToString(t) \o " -> " \o ToString(s)}

Vanished == Some("process no longer exists")

----------------------------------------------------------------------------
(* C1: an attempt whose signal send the host rejects with "no such process"
   returns success = true, in graceful and in non-graceful mode, and no such
   result is recorded by the kill command as a failure. *)
C1_VanishedIsSuccess ==
    /\ (Returned /\ sent # <<>> /\ LastSent.error = Vanished) => R.success
    /\ \A i \in 1..Len(results) : results[i].error = Vanished => results[i].success

(* C2: in graceful mode, when SIGTERM was accepted and the target exited before
   graceful_timeout had elapsed, the attempt returns success with SIGTERM as its
   only signal: no SIGKILL was sent and the label names no escalation. *)
C2_ExitWithinTimeoutIsTermOnly ==
    (/\ Returned
     /\ Graceful
     /\ sent[1].error = None
     /\ exited_at # None
     /\ exited_at[1] < GracefulTimeoutMs)
        => TermOnlySuccess

(* C3: a liveness probe that fails with an error other than "no such process"
   counts as alive: the attempt never returns the SIGTERM-only success on such
   a probe. *)
C3_ProbeErrorIsAlive ==
    (Returned /\ Graceful /\ probes # <<>> /\ LastProbe \notin {"OK", "ESRCH"})
        => ~TermOnlySuccess

(* C4: a graceful attempt whose every probe found the target alive until the
   timeout elapsed sends SIGKILL, without a further probe; an accepted SIGKILL
   gives success with the label "SIGTERM -> SIGKILL", a rejected one gives
   failure with the error of the host. *)
C4_EscalationOutcome ==
    (/\ Returned
     /\ Graceful
     /\ sent[1].error = None
     /\ \A i \in 1..Len(probes) : probes[i] = "OK")
        => /\ Len(sent) = 2
           /\ sent[2].signal = "Kill"
           /\ sent[2].at >= GracefulTimeoutMs
           /\ IF sent[2].error = None
              THEN /\ R.success
                   /\ R.signal_sent = "SIGTERM -> SIGKILL"
                   /\ R.error = None
              ELSE /\ ~R.success
                   /\ R.error = sent[2].error
                   /\ R.error \in {Some(MapErr("EPERM")), Some(MapErr("ESRCH"))}

\* an accepted SIGKILL reported as a success while the target still exists
C4_Witness ==
    /\ Returned
    /\ Graceful
    /\ Len(sent) = 2
    /\ sent[2].error = None
    /\ os = "alive"
    /\ R.success
    /\ Len(probes) >= 2
    /\ \A i \in 1..Len(probes) : probes[i] = "OK"

(* C5: the events of a graceful attempt are ordered: SIGTERM is sent exactly
   once and first; SIGKILL is sent at most once, only after SIGTERM was
   accepted, only once graceful_timeout has elapsed, and never after a probe
   found the target dead; a rejected SIGTERM ends the attempt at once with a
   failure, without probe or SIGKILL. *)
C5_GracefulOrder ==
    (Graceful /\ pc \in {"poll", "sleep", "returned"})
        => /\ Len(sent) \in {1, 2}
           /\ sent[1].signal = "Term"
           /\ sent[1].at = 0
           /\ \A i \in 2..Len(sent) : sent[i].signal = "Kill"
           /\ pc \in {"poll", "sleep"} => (Len(sent) = 1 /\ sent[1].error = None)
           /\ Len(sent) = 2
                => /\ sent[1].error = None
                   /\ sent[2].at >= GracefulTimeoutMs
                   /\ \A j \in 1..Len(probes) : probes[j] = "OK"
                   /\ Returned
           /\ sent[1].error # None
                => /\ Returned
                   /\ ~R.success
                   /\ R.error = sent[1].error
                   /\ Len(sent) = 1
                   /\ probes = <<>>
                   /\ elapsed = 0

C5_Witness ==
    /\ Returned
    /\ Graceful
    /\ Len(sent) = 2
    /\ Len(probes) >= 2
    /\ sent[2].at = GracefulTimeoutMs

(* C6: with dry_run the step of kill_process returns at once, for every
   signal, graceful flag and timeout: it sends no signal, makes no probe,
   waits for nothing, leaves the state of the target as it was, and returns
   success without error and with a label that says no signal was sent. *)
C6_DryRun ==
    [][(opts.dry_run /\ pc = "kill" /\ pc' # "kill")
        => /\ pc' = "returned"
           /\ os' = os
           /\ sent' = <<>>
           /\ probes' = <<>>
           /\ elapsed' = 0
           /\ result' = Some(KillResult(Target, TRUE,
                                        ToString(opts.signal) \o " (dry-run)", None))
           /\ LabelSignals(result'[1].signal_sent) = {opts.signal}
           /\ result'[1].signal_sent \notin {ToString(s) : s \in KillSignal}]_vars

C6_Witness ==
    /\ Returned
    /\ opts.dry_run
    /\ opts.graceful
    /\ opts.signal = "Kill"
    /\ opts.graceful_timeout_secs = 1
    /\ os = "alive"
    /\ R.signal_sent = "SIGKILL (dry-run)"

(* C7: a non-graceful attempt sends the configured signal once and no other
   signal, makes no probe and does not wait, and its success flag says
   whether the host accepted the send. *)
C7_ForceKill ==
    Forced
        => /\ pc \notin {"poll", "sleep"}
           /\ probes = <<>>
           /\ elapsed = 0
           /\ Len(sent) <= 1
           /\ Returned
                => /\ Len(sent) = 1
                   /\ sent[1].signal = opts.signal
                   /\ R.success = (sent[1].error = None)
                   /\ R.success = (SysKill(os) = "OK")
                   /\ R.error = sent[1].error
                   /\ R.signal_sent = ToString(opts.signal)

C7_Witness ==
    /\ Returned
    /\ Forced
    /\ opts.signal = "Hup"
    /\ R.success
    /\ os = "alive"

(* C8 as stated: in a graceful attempt the first signal is SIGTERM, and the
   configured signal is neither among the signals sent nor named in the label. *)
C8_ConfiguredSignalAbsent ==
    (Graceful /\ sent # <<>>)
        => /\ sent[1].signal = "Term"
           /\ \A i \in 1..Len(sent) : sent[i].signal # opts.signal
           /\ Returned => opts.signal \notin LabelSignals(R.signal_sent)

(* C8, amended: in a graceful attempt the first signal is SIGTERM whatever
   signal is configured, every later signal is SIGKILL, and the label names
   SIGTERM and SIGKILL only; so a configured signal other than these two is
   neither sent nor named. *)
C8_GracefulSignals ==
    (Graceful /\ sent # <<>>)
        => /\ sent[1].signal = "Term"
           /\ \A i \in 2..Len(sent) : sent[i].signal = "Kill"
           /\ Returned => /\ LabelSignals(R.signal_sent) \subseteq {"Term", "Kill"}
                          /\ LabelSignals(R.signal_sent) # {}
           /\ opts.signal \notin {"Term", "Kill"}
                => /\ \A i \in 1..Len(sent) : sent[i].signal # opts.signal
                   /\ Returned => opts.signal \notin LabelSignals(R.signal_sent)

C8_Witness ==
    /\ Returned
    /\ Graceful
    /\ opts.signal = "Int"
    /\ Len(sent) = 2
    /\ R.signal_sent = "SIGTERM -> SIGKILL"

\* the port whose processes were being killed is finished
PortDone == pc = "scan" /\ scans > 0

\* the results of the current port are those of the processes in list, in order
ResultsFor(list) ==
    /\ Len(results) = Len(list)
    /\ \A i \in 1..Len(list) : results[i].process = list[i]

(* C9 as stated: when a port is finished, every process that its scan returned
   has had one kill attempt and has one KillResult; no failed attempt ends the
   command with a hard error or leaves a port unscanned. *)
C9_EveryScannedProcess ==
    /\ PortDone => (attempted = scanned /\ ResultsFor(scanned))
    /\ pc = "done" => (ret = "Err" <=> scans < Len(Ports))

(* C9, amended: when a port is finished, every process that its scan returned
   and, in interactive mode, that the user left selected, has had one kill
   attempt and has one KillResult, in order; until then the attempts made are
   a prefix of them, one process at a time. The command ends with a hard error
   only when a scan failed, and otherwise only after every port was scanned. *)
C9_EverySelectedProcess ==
    /\ ~opts.interactive => processes = scanned
    /\ PortDone => (attempted = processes /\ ResultsFor(processes))
    /\ pc \in {"kill", "poll", "sleep", "returned"}
         => /\ procIdx \in 1..Len(processes)
            /\ attempted = SubSeq(processes, 1, Len(attempted))
            /\ Len(attempted) = IF pc = "kill" THEN procIdx - 1 ELSE procIdx
            /\ ResultsFor(SubSeq(processes, 1, procIdx - 1))
    /\ pc = "done" => (ret = "Err" <=> scans < Len(Ports))
    /\ pc = "done" => (ret \in {"Ok(true)", "Ok(false)"} <=> scans = Len(Ports))

C9_Witness ==
    /\ PortDone
    /\ portIdx = 3
    /\ Len(results) = 2
    /\ ~results[1].success
    /\ results[2].success
    /\ any_failed

(* C10 as stated: the exit status is 0 if and only if no kill attempt of the
   invocation returned success = false. *)
C10_ExitIffNoFailure ==
    pc = "done" => (exit_code = 0 <=> ~any_failed)

(* C10, amended: when no scan failed, execute returns Ok(true) and the exit
   status is 0 if and only if no kill attempt returned success = false; when a
   scan failed the command ends with an error and a non-zero status. *)
C10_ExitIffNoFailureOrScanError ==
    /\ pc # "done" => (all_success <=> ~any_failed)
    /\ pc = "done"
        => IF ret = "Err"
           THEN exit_code = 1
           ELSE /\ ret = "Ok(true)" <=> ~any_failed
                /\ ret = "Ok(false)" <=> any_failed
                /\ exit_code = 0 <=> ~any_failed
                /\ exit_code \in {0, 1}

C10_Witness ==
    /\ pc = "done"
    /\ ret = "Ok(false)"
    /\ exit_code = 1
    /\ scans = 2
    /\ all_success = FALSE

----------------------------------------------------------------------------
(* platform/linux.rs, platform/macos.rs, platform/windows.rs: the scanners *)

\* the ProcessInfo a scanner builds for one match
Binding(pid, port, protocol) == [pid |-> pid, port |-> port, protocol |-> protocol]

\* Protocol::Tcp for tcp and tcp6, Protocol::Udp for udp and udp6
TableProtocol(t) == IF t \in {"tcp", "tcp6"} THEN "Tcp" ELSE "Udp"

\* What a scan fails to read besides the socket tables: nothing, the list of
\* processes, one process (its entry or its descriptor table), or one descriptor.
NoFault == <<"none">>
ListFault == <<"list">>
PidFault(p) == <<"pid", p>>
FdFault(i) == <<"fd", i>>

Faults(h) ==
    {NoFault, ListFault}
        \cup {PidFault(h.fds[i].pid) : i \in 1..Len(h.fds)}
        \cup {FdFault(i) : i \in 1..Len(h.fds)}

RECURSIVE Flatten(_)
Flatten(ss) == IF ss = <<>> THEN <<>> ELSE Head(ss) \o Flatten(Tail(ss))

RECURSIVE PidOrder(_, _)
\* the processes in the order the host enumerates them
PidOrder(fds, seen) ==
    IF fds = <<>> THEN <<>>
    ELSE IF Head(fds).pid \in seen THEN PidOrder(Tail(fds), seen)
    ELSE <<Head(fds).pid>> \o PidOrder(Tail(fds), seen \cup {Head(fds).pid})

\* mutant: a process that cannot be read ends the walk for every process
ReadableFds_Mut(h, pid, fault) ==
    IF fault[1] = "pid" THEN <<>>
    ELSE SelectSeq([i \in 1..Len(h.fds) |-> i],
                   LAMBDA i : h.fds[i].pid = pid /\ fault # FdFault(i))

\* the descriptors of pid (as indices of h.fds) that the scan can read
ReadableFds(h, pid, fault) ==
    IF fault = PidFault(pid) THEN <<>>
    ELSE SelectSeq([i \in 1..Len(h.fds) |-> i],
                   LAMBDA i : h.fds[i].pid = pid /\ fault # FdFault(i))

\* mutant: the sockets of every port match
FindInodesForPort_Mut(h, target_port, failed) ==
    LET hit == {i \in Inodes : /\ h.sockets[i] # NoSocket
                               /\ h.sockets[i].table \notin failed}
    IN  [i \in hit |-> TableProtocol(h.sockets[i].table)]

\* LinuxScanner::find_inodes_for_port: a table whose read failed is skipped
FindInodesForPort(h, target_port, failed) ==
    LET hit == {i \in Inodes : /\ h.sockets[i] # NoSocket
                               /\ h.sockets[i].table \notin failed
                               /\ h.sockets[i].port = target_port}
    IN  [i \in hit |-> TableProtocol(h.sockets[i].table)]

\* LinuxScanner::all_listening_inodes
AllListeningInodes(h, failed) ==
    LET hit == {i \in Inodes : /\ h.sockets[i] # NoSocket
                               /\ h.sockets[i].table \notin failed
                               /\ h.sockets[i].port > 0}
    IN  [i \in hit |-> [port |-> h.sockets[i].port,
                        protocol |-> TableProtocol(h.sockets[i].table)]]

\* find_processes_by_inodes, one process: the first matching descriptor, then break
ProcessByInodes(h, pid, inodes, target_port, fault) ==
    LET m == SelectSeq(ReadableFds(h, pid, fault),
                       LAMBDA i : h.fds[i].inode \in DOMAIN inodes)
    IN  IF m = <<>> THEN <<>>
        ELSE <<Binding(pid, target_port, inodes[h.fds[m[1]].inode])>>

\* LinuxScanner::find_processes_by_inodes
FindProcessesByInodes(h, inodes, target_port, fault) ==
    IF fault = ListFault THEN Err("failed to read /proc")
    ELSE LET order == PidOrder(h.fds, {})
         IN  Ok(Flatten([k \in 1..Len(order) |->
                           ProcessByInodes(h, order[k], inodes, target_port, fault)]))

\* LinuxScanner::find_processes_by_port
LinuxFindProcessesByPort(h, port, failed, fault) ==
    LET inodes == FindInodesForPort(h, port, failed)
    IN  IF DOMAIN inodes = {} THEN Ok(<<>>)
        ELSE FindProcessesByInodes(h, inodes, port, fault)

\* mutant: the records are ordered by pid alone
SortKeyLE_Mut(a, b) == a.pid <= b.pid

\* the key of sort_by_key: (p.port, p.pid)
SortKeyLE(a, b) == a.port < b.port \/ (a.port = b.port /\ a.pid <= b.pid)

RECURSIVE Insert(_, _)
Insert(x, s) ==
    IF s = <<>> THEN <<x>>
    ELSE IF SortKeyLE(Head(s), x) THEN <<Head(s)>> \o Insert(x, Tail(s))
    ELSE <<x>> \o s

RECURSIVE SortByKey(_)
\* results.sort_by_key(|p| (p.port, p.pid)): a stable sort
SortByKey(s) ==
    IF s = <<>> THEN <<>> ELSE Insert(s[Len(s)], SortByKey(SubSeq(s, 1, Len(s) - 1)))

\* find_all_listening of the Linux scanner, one process: every matching descriptor
ProcessAllListening(h, pid, inode_map, fault) ==
    LET m == SelectSeq(ReadableFds(h, pid, fault),
                       LAMBDA i : h.fds[i].inode \in DOMAIN inode_map)
    IN  [k \in 1..Len(m) |-> Binding(pid, inode_map[h.fds[m[k]].inode].port,
                                     inode_map[h.fds[m[k]].inode].protocol)]

\* LinuxScanner::find_all_listening
LinuxFindAllListening(h, failed, fault) ==
    LET inode_map == AllListeningInodes(h, failed)
        order == PidOrder(h.fds, {})
    IN  IF DOMAIN inode_map = {} THEN Ok(<<>>)
        ELSE IF fault = ListFault THEN Err("failed to read /proc")
        ELSE Ok(SortByKey(Flatten([k \in 1..Len(order) |->
                                     ProcessAllListening(h, order[k], inode_map, fault)])))

\* MacosScanner::extract_port_info: the local port and protocol of an internet
\* socket whose port is not 0
ExtractPortInfo(sock) ==
    IF sock = NoSocket THEN None
    ELSE IF sock.port > 0 THEN Some(<<sock.port, TableProtocol(sock.table)>>)
    ELSE None

\* MacosScanner::scan_process_fds: port_filter is None or Some(port)
ScanProcessFds(h, pid, port_filter, fault) ==
    LET info(i) == ExtractPortInfo(h.sockets[h.fds[i].inode])
        bound == SelectSeq(ReadableFds(h, pid, fault), LAMBDA i : info(i) # None)
        m == SelectSeq(bound, LAMBDA i : info(i)[1][1] = port_filter[1])
    IN  IF port_filter = None THEN [k \in 1..Len(bound) |-> info(bound[k])[1]]
        ELSE IF m = <<>> THEN <<>>
        ELSE <<info(m[1])[1]>>

\* MacosScanner::find_processes_by_port, in the order of the process list
\* (the order of the HashMap's values is chosen when the call returns)
MacosFindProcessesByPort(h, target_port, fault) ==
    IF fault = ListFault THEN Err("failed to list PIDs")
    ELSE LET order == PidOrder(h.fds, {})
             one(pid) ==
                 LET matches == ScanProcessFds(h, pid, Some(target_port), fault)
                 IN  IF pid = 0 \/ matches = <<>> THEN <<>>
                     ELSE <<Binding(pid, matches[1][1], matches[1][2])>>
         IN  Ok(Flatten([k \in 1..Len(order) |-> one(order[k])]))

RECURSIVE Dedup(_, _)
\* the seen map of find_all_listening: the first record of every key is kept
Dedup(s, seen) ==
    IF s = <<>> THEN <<>>
    ELSE IF Head(s) \in seen THEN Dedup(Tail(s), seen)
    ELSE <<Head(s)>> \o Dedup(Tail(s), seen \cup {Head(s)})

\* MacosScanner::find_all_listening
MacosFindAllListening(h, fault) ==
    IF fault = ListFault THEN Err("failed to list PIDs")
    ELSE LET order == PidOrder(h.fds, {})
             one(pid) ==
                 LET matches == ScanProcessFds(h, pid, None, fault)
                 IN  IF pid = 0 THEN <<>>
                     ELSE [k \in 1..Len(matches) |->
                             Binding(pid, matches[k][1], matches[k][2])]
         IN  Ok(SortByKey(Dedup(Flatten([k \in 1..Len(order) |-> one(order[k])]), {})))

\* mutant: a platform without a scanner reports that nothing is bound
WindowsError_Mut == Ok(<<>>)

\* WindowsScanner: both operations
WindowsError == Err("Windows support is not yet implemented. Contributions welcome!")

\* the orders in which a HashMap may hand out the values it holds
Permutations(s) ==
    {[i \in 1..Len(s) |-> s[f[i]]] :
        f \in {g \in [1..Len(s) -> 1..Len(s)] : \A i, j \in 1..Len(s) : g[i] = g[j] => i = j}}

----------------------------------------------------------------------------
(* scanner.rs: the two operations of PortScanner, on the selected backend *)

\* the read failures a Linux scan can meet: the process list is read only when
\* some socket matched
LinuxFaults(h, matched) == IF matched = {} THEN {NoFault} ELSE Faults(h)

Called(op, port, failed, fault, r) ==
    /\ call' = [op |-> op, port |-> port, failed |-> failed, fault |-> fault, ret |-> r]
    /\ UNCHANGED <<backend, host, released, vars, parseVars, cmdVars, tuiVars, sysVars>>

\* scanner.find_processes_by_port(port)
FindProcessesByPort ==
    /\ call = NoCall
    /\ \E port \in PortNumbers :
         \/ /\ backend = "linux"
            /\ \E failed \in SUBSET Tables :
               \E fault \in LinuxFaults(host, DOMAIN FindInodesForPort(host, port, failed)) :
                 Called("by_port", port, failed, fault,
                        LinuxFindProcessesByPort(host, port, failed, fault))
         \/ /\ backend = "macos"
            /\ \E fault \in Faults(host) :
                 LET r == MacosFindProcessesByPort(host, port, fault)
                 IN  IF r.ok
                     THEN \E values \in Permutations(r.val) :
                            Called("by_port", port, {}, fault, Ok(values))
                     ELSE Called("by_port", port, {}, fault, r)
         \/ /\ backend = "windows"
            /\ Called("by_port", port, {}, NoFault, WindowsError)

\* scanner.find_all_listening()
FindAllListening ==
    /\ call = NoCall
    /\ \/ /\ backend = "linux"
          /\ \E failed \in SUBSET Tables :
             \E fault \in LinuxFaults(host, DOMAIN AllListeningInodes(host, failed)) :
               Called("all", 0, failed, fault, LinuxFindAllListening(host, failed, fault))
       \/ /\ backend = "macos"
          /\ \E fault \in Faults(host) :
               Called("all", 0, {}, fault, MacosFindAllListening(host, fault))
       \/ /\ backend = "windows"
          /\ Called("all", 0, {}, NoFault, WindowsError)

\* the caller has used the result
CallReturns ==
    /\ call # NoCall
    /\ call' = NoCall
    /\ released' = 0
    /\ UNCHANGED <<backend, host, vars, parseVars, cmdVars, tuiVars, sysVars>>

\* the host destroys a socket: its descriptors are closed and its port is free
Release ==
    /\ call = NoCall
    /\ \E i \in Inodes :
         /\ host.sockets[i] # NoSocket
         /\ LET left == [host.sockets EXCEPT ![i] = NoSocket]
                port == host.sockets[i].port
            IN  /\ host' = [sockets |-> left,
                            fds |-> SelectSeq(host.fds, LAMBDA f : f.inode # i)]
                /\ released' = IF port > 0 /\ \A j \in Inodes : left[j].port # port
                               THEN port ELSE 0
    /\ UNCHANGED <<backend, call, vars, parseVars, cmdVars, tuiVars, sysVars>>

\* the kill command is not running while the scanner is exercised on its own
KillIdle ==
    /\ opts = [ports |-> <<>>, signal |-> "Term", graceful |-> FALSE,
               graceful_timeout_secs |-> 0, dry_run |-> TRUE, interactive |-> FALSE]
    /\ os = "alive"
    /\ pc = "done"
    /\ portIdx = 1
    /\ processes = <<>>
    /\ procIdx = 1
    /\ result = None
    /\ results = <<>>
    /\ all_success = TRUE
    /\ elapsed = 0
    /\ ret = "none"
    /\ exit_code = -1
    /\ scanned = <<>>
    /\ attempted = <<>>
    /\ sent = <<>>
    /\ probes = <<>>
    /\ scans = 0
    /\ any_failed = FALSE
    /\ exited_at = None

ScanInit ==
    /\ KillIdle
    /\ ParseIdle
    /\ CmdIdle
    /\ TuiIdle
    /\ SysIdle
    /\ backend \in {"linux", "macos", "windows"}
    /\ host \in Hosts
    /\ call = NoCall
    /\ released = 0

ScanNext ==
    \/ FindProcessesByPort
    \/ FindAllListening
    \/ CallReturns
    \/ Release

ScanSpec == ScanInit /\ [][ScanNext]_scanVars

----------------------------------------------------------------------------
(* process.rs: PortSpec::parse, on tokens that are sequences of characters *)

U16Max == 65535
U32MaxDiv10 == 429496729
U32MaxMod10 == 5
PortMax == 65535

\* the pieces the tokens of the model are made of
Atoms ==
    {<<"0">>, <<"1">>, <<"6", "5", "5", "3", "4">>, <<"6", "5", "5", "3", "5">>,
     <<"6", "5", "5", "3", "6">>, <<"+">>, <<"-">>, <<"a">>}

Tokens == {Flatten(as) : as \in UNION {[1..n -> Atoms] : n \in 0..MaxAtoms}}

Digit(c) ==
    CASE c = "0" -> 0 [] c = "1" -> 1 [] c = "2" -> 2 [] c = "3" -> 3 [] c = "4" -> 4
      [] c = "5" -> 5 [] c = "6" -> 6 [] c = "7" -> 7 [] c = "8" -> 8 [] c = "9" -> 9
      [] OTHER -> -1

RECURSIVE ParseDigits(_, _, _, _)
\* the digit loop of str::parse for an unsigned integer whose greatest value is
\* 10 * q + r: an invalid digit or an overflow is an error (None)
ParseDigits(s, acc, q, r) ==
    IF s = <<>> THEN Some(acc)
    ELSE LET d == Digit(Head(s))
         IN  IF d < 0 THEN None
             ELSE IF acc > q \/ (acc = q /\ d > r) THEN None
             ELSE ParseDigits(Tail(s), acc * 10 + d, q, r)

\* str::parse::<uN>(): an empty string and a lone sign are errors, one leading
\* "+" is skipped
ParseUnsigned(s, q, r) ==
    IF s = <<>> THEN None
    ELSE IF Len(s) = 1 /\ s[1] \in {"+", "-"} THEN None
    ELSE IF s[1] = "+" THEN ParseDigits(Tail(s), 0, q, r)
    ELSE ParseDigits(s, 0, q, r)

ParseU16(s) == ParseUnsigned(s, U16Max \div 10, U16Max % 10)
ParseU32(s) == ParseUnsigned(s, U32MaxDiv10, U32MaxMod10)

\* s.split_once('-'): None, or the parts before and after the first '-'
SplitOnce(s) ==
    LET at == {i \in 1..Len(s) : s[i] = "-"}
        k == CHOOSE i \in at : \A j \in at : i <= j
    IN  IF at = {} THEN None
        ELSE Some(<<SubSeq(s, 1, k - 1), SubSeq(s, k + 1, Len(s))>>)

\* mutant: the greatest port number is taken for invalid
SingleInvalid_Mut(n) == n = 0 \/ n >= PortMax

\* if n == 0 || n > 65535
SingleInvalid(n) == n = 0 \/ n > PortMax

\* KillportError::InvalidPort(u32)
InvalidPort(n) == [kind |-> "InvalidPort", port |-> n]

\* KillportError::InvalidPortRange(String)
InvalidPortRange(text) == [kind |-> "InvalidPortRange", text |-> text]

DigitChar(d) == <<"0", "1", "2", "3", "4", "5", "6", "7", "8", "9">>[d + 1]

RECURSIVE Decimal(_)
\* the decimal digits of n, as format!("{n}") writes them
Decimal(n) ==
    IF n < 10 THEN <<DigitChar(n)>>
    ELSE Decimal(n \div 10) \o <<DigitChar(n % 10)>>

\* the Display of a KillportError: its fixed text around the value it carries
Display(e) ==
    IF e.kind = "InvalidPort"
    THEN <<"port ">> \o Decimal(e.port) \o <<" is not in valid range (1-65535)">>
    ELSE <<"invalid port range: ">> \o e.text

\* format!("start ({start}) > end ({end})")
StartAfterEnd(start, end) ==
    <<"start (">> \o Decimal(start) \o <<") > end (">> \o Decimal(end) \o <<")">>

\* PortSpec::parse
PortSpecParse(s) ==
    LET parts == SplitOnce(s) IN
    IF parts # None
    THEN LET start == ParseU16(parts[1][1])
             end == ParseU16(parts[1][2])
         IN  IF start = None THEN Err(InvalidPortRange(s))
             ELSE IF end = None THEN Err(InvalidPortRange(s))
             ELSE IF start[1] > end[1]
                  THEN Err(InvalidPortRange(StartAfterEnd(start[1], end[1])))
             ELSE IF start[1] = 0 THEN Err(InvalidPortRange(<<"port 0 is not valid">>))
             ELSE Ok(Range(start[1], end[1]))
    ELSE LET n == ParseU32(s)
         IN  IF n = None THEN Err(InvalidPort(0))
             ELSE IF SingleInvalid(n[1]) THEN Err(InvalidPort(n[1]))
             ELSE Ok(Single(n[1]))

\* PortSpec::parse(s)
Parse ==
    /\ parsed = None
    /\ parsed' = Some(PortSpecParse(token))
    /\ UNCHANGED <<token, expanded, vars, scanVars, cmdVars, tuiVars, sysVars>>

\* spec.expand() on a parsed PortSpec
ExpandParsed ==
    /\ parsed # None
    /\ parsed[1].ok
    /\ expanded = None
    /\ expanded' = Some(Expand(parsed[1].val))
    /\ UNCHANGED <<token, parsed, vars, scanVars, cmdVars, tuiVars, sysVars>>

ParseInit ==
    /\ KillIdle
    /\ ScanIdle
    /\ CmdIdle
    /\ TuiIdle
    /\ SysIdle
    /\ token \in Tokens
    /\ parsed = None
    /\ expanded = None

ParseNext ==
    \/ Parse
    \/ ExpandParsed

ParseSpec == ParseInit /\ [][ParseNext]_parseVars

----------------------------------------------------------------------------
(* Vocabulary of the scanner properties *)

ByPort == call.op = "by_port"
AllListening == call.op = "all"

\* the list a successful call returned
Listed == call.ret.val

\* the sockets of the host whose local port is P
BoundTo(P) == {i \in Inodes : host.sockets[i] # NoSocket /\ host.sockets[i].port = P}

\* the sockets the call found in the tables it could read
Seen == {i \in Inodes : host.sockets[i] # NoSocket /\ host.sockets[i].table \notin call.failed}

\* process p has a descriptor that the call could read and that refers to a socket of S
HasReadableFdFor(p, S) ==
    /\ call.fault # PidFault(p)
    /\ \E i \in 1..Len(host.fds) :
         /\ host.fds[i].pid = p
         /\ call.fault # FdFault(i)
         /\ host.fds[i].inode \in S

\* the call met a failure to read one process or one descriptor
SingleReadFailure == call.op # "none" /\ call.fault \notin {NoFault, ListFault}

----------------------------------------------------------------------------
\* C11: find_all_listening never returns two records with the same
\* (pid, port, protocol), on every backend, also when a process holds several
\* descriptors of one socket or an IPv4 and an IPv6 socket on one port.
C11_NoDuplicateTriples ==
    (AllListening /\ call.ret.ok) =>
        \A j, k \in 1..Len(Listed) : Listed[j] = Listed[k] => j = k

----------------------------------------------------------------------------
\* C12: the list find_all_listening returns is ordered by port ascending and,
\* among records of one port, by pid ascending, whatever the order in which the
\* host enumerates processes and descriptors.
C12_SortedByPortThenPid ==
    (AllListening /\ call.ret.ok) =>
        \A j, k \in 1..Len(Listed) :
            j < k => \/ Listed[j].port < Listed[k].port
                     \/ Listed[j].port = Listed[k].port /\ Listed[j].pid <= Listed[k].pid

\* two records whose order by port is the reverse of their order by pid and of
\* the order in which the host enumerated them
C12_Witness ==
    /\ AllListening
    /\ call.ret.ok
    /\ Len(Listed) = 2
    /\ Listed[1].port < Listed[2].port
    /\ Listed[1].pid > Listed[2].pid
    /\ host.fds[1].pid = Listed[2].pid

----------------------------------------------------------------------------
\* C13: when no kernel socket table can be read (every table read fails), the
\* scanner operations fail with an error and do not return Ok with an empty list.
C13_UnreadableTablesIsError ==
    (call.op # "none" /\ backend = "linux" /\ call.failed = Tables) => ~call.ret.ok

----------------------------------------------------------------------------
\* C14 (as stated): find_processes_by_port on a port to which no socket is bound
\* returns Ok with an empty list and never an error, also right after the only
\* socket of the port was released.
C14_UnboundPortIsEmptyOk ==
    (ByPort /\ BoundTo(call.port) = {}) => call.ret = Ok(<<>>)

\* C14 (amended): on Linux and macOS, find_processes_by_port on a port to which
\* no socket is bound returns Ok with an empty list, also right after the only
\* socket of the port was released; the one exception is macOS when the list of
\* processes cannot be read, where the call fails.
C14_UnboundPortIsEmptyUnlessNoProcessList ==
    (ByPort /\ backend # "windows" /\ BoundTo(call.port) = {}) =>
        IF backend = "macos" /\ call.fault = ListFault
        THEN ~call.ret.ok
        ELSE call.ret = Ok(<<>>)

\* the call that follows the release of the only socket of its port
C14_Witness ==
    /\ ByPort
    /\ backend # "windows"
    /\ released = call.port
    /\ BoundTo(call.port) = {}
    /\ host.fds # <<>>
    /\ call.ret = Ok(<<>>)

----------------------------------------------------------------------------
\* C15: find_processes_by_port(P) returns exactly one record for every readable
\* process that owns a socket (TCP or UDP, IPv4 or IPv6) whose local port is P,
\* no record for any other process, no two records with the same pid, and only
\* records with port = P.
C15_ExactlyTheOwners ==
    (ByPort /\ call.ret.ok) =>
        /\ {Listed[k].pid : k \in 1..Len(Listed)}
               = {p \in Pids : HasReadableFdFor(p, BoundTo(call.port))}
        /\ \A j, k \in 1..Len(Listed) : Listed[j].pid = Listed[k].pid => j = k
        /\ \A k \in 1..Len(Listed) : Listed[k].port = call.port

----------------------------------------------------------------------------
\* C16: a failure to read one process (its entry or its descriptor table) or
\* one descriptor omits only that process or descriptor: the call returns Ok
\* and every other process with a descriptor of a matching socket is reported.
C16_ReadFailureOmitsOnlyItsProcess ==
    (SingleReadFailure /\ backend # "windows") =>
        /\ call.ret.ok
        /\ \A p \in Pids :
             call.fault = PidFault(p) => \A k \in 1..Len(Listed) : Listed[k].pid # p
        /\ ByPort =>
             \A q \in Pids :
                 HasReadableFdFor(q, Seen \cap BoundTo(call.port)) =>
                     \E k \in 1..Len(Listed) :
                         Listed[k].pid = q /\ Listed[k].port = call.port
        /\ AllListening =>
             \A q \in Pids : \A i \in Seen :
                 (host.sockets[i].port > 0 /\ HasReadableFdFor(q, {i})) =>
                     \E k \in 1..Len(Listed) :
                         Listed[k] = Binding(q, host.sockets[i].port,
                                             TableProtocol(host.sockets[i].table))

\* a process that owns a socket of the port cannot be read, another one is reported
C16_Witness ==
    /\ ByPort
    /\ \E p \in Pids :
         /\ call.fault = PidFault(p)
         /\ \E i \in 1..Len(host.fds) :
              host.fds[i].pid = p /\ host.fds[i].inode \in Seen \cap BoundTo(call.port)
    /\ call.ret.ok
    /\ Len(Listed) = 1

----------------------------------------------------------------------------
\* C17: on a platform without a scanner implementation both scanner operations
\* fail with the unsupported-platform error, for every input and on every
\* call, and never return Ok with an empty list.
C17_UnsupportedPlatformFails ==
    (backend = "windows" /\ call.op # "none") =>
        call.ret = Err("Windows support is not yet implemented. Contributions welcome!")

\* both operations were called on a host where a process owns a bound socket
C17_Witness ==
    /\ backend = "windows"
    /\ AllListening
    /\ ~call.ret.ok
    /\ \E i \in 1..Len(host.fds) : host.fds[i].inode \in BoundTo(1)

----------------------------------------------------------------------------
(* Vocabulary of the parser properties: the port token grammar *)

\* a non-empty string of decimal digits
IsDigits(s) == s # <<>> /\ \A i \in 1..Len(s) : Digit(s[i]) >= 0

RECURSIVE Value(_, _)
\* the number a string of digits denotes; every number above PortMax counts
\* as PortMax + 1
Value(s, acc) ==
    IF s = <<>> THEN acc
    ELSE LET v == acc * 10 + Digit(Head(s))
         IN  Value(Tail(s), IF v > PortMax THEN PortMax + 1 ELSE v)

Dashes == {i \in 1..Len(token) : token[i] = "-"}
Left == SubSeq(token, 1, (CHOOSE i \in Dashes : TRUE) - 1)
Right == SubSeq(token, (CHOOSE i \in Dashes : TRUE) + 1, Len(token))

\* the token is N with 1 <= N <= 65535
ValidSingle == IsDigits(token) /\ Value(token, 0) \in 1..PortMax

\* the token is N1-N2 with 1 <= N1 <= N2 <= 65535
ValidRange ==
    /\ Cardinality(Dashes) = 1
    /\ IsDigits(Left)
    /\ IsDigits(Right)
    /\ 1 <= Value(Left, 0)
    /\ Value(Left, 0) <= Value(Right, 0)
    /\ Value(Right, 0) <= PortMax

ParsedOk == parsed # None /\ parsed[1].ok

----------------------------------------------------------------------------
\* C18: PortSpec::parse succeeds only on tokens of the form N (1..65535) or
\* N1-N2 (1 <= N1 <= N2 <= 65535); every other form (signs, empty parts, extra
\* separators, text, zero, values out of range, reversed ranges) is rejected,
\* and a parsed PortSpec never holds port 0 or a descending range and expands
\* only to ports in 1..65535.
C18_ParsesOnlyTheGrammar ==
    ParsedOk =>
        /\ ValidSingle \/ ValidRange
        /\ 1 <= parsed[1].val.start
        /\ parsed[1].val.start <= parsed[1].val.end
        /\ parsed[1].val.end <= PortMax
        /\ expanded # None =>
             \A i \in 1..Len(expanded[1]) : expanded[1][i] \in 1..PortMax

----------------------------------------------------------------------------
\* C19: for every single-port token N with 1 <= N <= 65535, PortSpec::parse
\* succeeds with a single-port value and expand yields exactly [N].
C19_SinglePortRoundTrip ==
    (ValidSingle /\ parsed # None) =>
        /\ parsed[1] = Ok(Single(Value(token, 0)))
        /\ expanded # None => expanded[1] = <<Value(token, 0)>>

\* the greatest port number, parsed and expanded
C19_Witness ==
    /\ ValidSingle
    /\ Value(token, 0) = PortMax
    /\ expanded # None
    /\ expanded[1] = <<PortMax>>

----------------------------------------------------------------------------
\* C20: for every range token N1-N2 with 1 <= N1 <= N2 <= 65535 (N1 = N2 and
\* N2 = 65535 included), PortSpec::parse succeeds and expand yields the
\* ascending sequence N1, N1+1, ..., N2 of N2-N1+1 elements without repetition.
C20_RangeRoundTrip ==
    (ValidRange /\ parsed # None) =>
        /\ parsed[1] = Ok(Range(Value(Left, 0), Value(Right, 0)))
        /\ expanded # None =>
             /\ Len(expanded[1]) = Value(Right, 0) - Value(Left, 0) + 1
             /\ \A i \in 1..Len(expanded[1]) : expanded[1][i] = Value(Left, 0) + i - 1

\* a range of more than one port that ends at the greatest port number
C20_Witness ==
    /\ ValidRange
    /\ Value(Right, 0) = PortMax
    /\ expanded # None
    /\ Len(expanded[1]) = 2
    /\ expanded[1][1] < expanded[1][2]

----------------------------------------------------------------------------
\* every sleep of the attempt lasted exactly its nominal duration
AccurateSleeps ==
    /\ sent[2].at = Len(probes) * PollIntervalMs
    /\ elapsed = sent[2].at + KillDelayMs

\* the longest a sleep of d milliseconds lasts
LongestSleep(d) == d + MaxOverruns * PollIntervalMs

\* The attempt escalated at or after the timeout, overshot it by at most one
\* poll sleep whatever the number of polls, and ended in success.
EscalatedOnTime ==
    /\ Len(sent) = 2
    /\ sent[2].signal = "Kill"
    /\ sent[2].at >= GracefulTimeoutMs
    /\ elapsed <= GracefulTimeoutMs + LongestSleep(PollIntervalMs) + LongestSleep(KillDelayMs)
    /\ AccurateSleeps => elapsed <= GracefulTimeoutMs + PollIntervalMs + KillDelayMs
    /\ R.success
    /\ R.signal_sent = EscalationLabel
    /\ (opts.graceful_timeout_secs = 1 /\ AccurateSleeps) =>
          elapsed >= MillisPerSec /\ elapsed <= MillisPerSec + 3 * PollIntervalMs

(* C23 as stated: a graceful attempt on a target that never exits sends SIGKILL
   no earlier than graceful_timeout after the graceful phase began, returns no
   later than graceful_timeout plus one poll sleep plus the sleep after the
   kill (200 ms when the sleeps are accurate), the decision being taken on the
   elapsed time and not on the number of polls, and ends in success with the
   escalation label; with a timeout of 1 s and accurate sleeps the call lasts
   between 1.0 s and 1.3 s. *)
C23_NeverExitingTargetTiming ==
    (Returned /\ Graceful /\ os # "gone") => EscalatedOnTime

(* C23, amended: the same, for a target that never exits and that the caller
   is allowed to signal during the whole attempt. *)
C23_SignalableTargetTiming ==
    (Returned /\ Graceful /\ os = "alive") => EscalatedOnTime

\* a timeout of 1 s, polls that all found the target alive, one of the sleeps
\* late, then the escalation
C23_Witness ==
    /\ Returned
    /\ Graceful
    /\ os = "alive"
    /\ opts.graceful_timeout_secs = 1
    /\ Len(probes) * PollIntervalMs < MillisPerSec
    /\ sent[2].at > MillisPerSec
    /\ R.success
    /\ R.signal_sent = EscalationLabel

----------------------------------------------------------------------------
\* the label that names the signals of sigs in order, joined by " -> "
RECURSIVE Render(_)
Render(sigs) ==
    IF Len(sigs) = 1 THEN ToString(sigs[1])
    ELSE ToString(sigs[1]) \o " -> " \o Render(Tail(sigs))

(* C30: in every outcome of an attempt that is not a dry run, signal_sent names
   every signal whose send was attempted, in order: both SIGTERM and SIGKILL
   when an escalation was attempted, whether the SIGKILL was accepted or not,
   and one signal when one was sent. *)
C30_LabelNamesEverySend ==
    (Returned /\ ~opts.dry_run) =>
        R.signal_sent = Render([i \in 1..Len(sent) |-> sent[i].signal])

----------------------------------------------------------------------------
(* killer.rs: kill_process called again and again with one configuration on a
   process that exited before the first call *)

MaxCalls == 2

TwiceInit ==
    /\ ScanIdle
    /\ ParseIdle
    /\ CmdIdle
    /\ TuiIdle
    /\ SysIdle
    /\ \E q \in PortNumbers :
         /\ opts \in [ports : {<<Single(q)>>},
                      signal : KillSignal,
                      graceful : BOOLEAN,
                      graceful_timeout_secs : 0..MaxTimeoutSecs,
                      dry_run : BOOLEAN,
                      interactive : {FALSE}]
         /\ processes \in {<<ProcessInfo(p, q)>> : p \in Pids}
    /\ os = "gone"
    /\ pc = "kill"
    /\ portIdx = 1
    /\ procIdx = 1
    /\ result = None
    /\ results = <<>>
    /\ all_success = TRUE
    /\ elapsed = 0
    /\ ret = "none"
    /\ exit_code = -1
    /\ scanned = processes
    /\ attempted = <<>>
    /\ sent = <<>>
    /\ probes = <<>>
    /\ scans = 1
    /\ any_failed = FALSE
    /\ exited_at = Some(0)

\* the caller keeps the outcome and calls kill_process(process, config) again;
\* the locals of the call that returned are gone
CallAgain ==
    /\ pc = "returned"
    /\ Len(results) + 1 < MaxCalls
    /\ results' = Append(results, result[1])
    /\ result' = None
    /\ pc' = "kill"
    /\ elapsed' = 0
    /\ probes' = <<>>
    /\ UNCHANGED <<scanVars, parseVars, cmdVars, tuiVars, sysVars, opts, os, portIdx, processes, procIdx, all_success, ret,
                   exit_code, scanned, attempted, sent, scans, any_failed, exited_at>>

TwiceNext ==
    \/ KillDryRun
    \/ ForceKill
    \/ GracefulTerm
    \/ CallAgain

TwiceSpec == TwiceInit /\ [][TwiceNext]_vars

\* no signal of the call in progress or just returned was delivered
NothingDelivered == \A i \in 1..Len(sent) : sent[i].error = Vanished

\* every earlier call returned what the call that just returned did
SameAsBefore == \A i \in 1..Len(results) : results[i] = R

(* C29 as stated: kill_process called twice in a row with the same
   configuration, whatever it is, on an already-dead process delivers no
   signal to any process and returns the identical process-vanished outcome
   both times. *)
C29_TwiceOnDeadProcess ==
    /\ NothingDelivered
    /\ Returned => (R.error = Vanished /\ R.process = Target /\ SameAsBefore)

(* C29, amended: the same for every configuration that is not a dry run; a
   dry run sends nothing and returns the identical dry-run outcome both
   times. *)
C29_TwiceOnDeadProcessNoDryRun ==
    /\ NothingDelivered
    /\ Returned =>
         /\ R.process = Target
         /\ SameAsBefore
         /\ IF opts.dry_run
            THEN sent = <<>> /\ R = KillResult(Target, TRUE, DryRunLabel(opts.signal), None)
            ELSE /\ Len(sent) = 1
                 /\ R.error = Vanished
                 /\ R.signal_sent = ToString(sent[1].signal)

\* the second call on the dead process returned, and it did send its signal
C29_Witness ==
    /\ Returned
    /\ Len(results) = 1
    /\ Len(attempted) = 2
    /\ ~opts.dry_run
    /\ Len(sent) = 1
    /\ R.error = Vanished
    /\ results[1] = R

----------------------------------------------------------------------------
\* the text t occurs in the message m
Occurs(t, m) ==
    \E i \in 0..(Len(m) - Len(t)) : \A k \in 1..Len(t) : m[i + k] = t[k]

Rejected == parsed # None /\ ~parsed[1].ok

(* C21: the error PortSpec::parse returns for a rejected token carries that
   token, whatever the kind of rejection: text, zero, a value out of range, an
   inverted range, a malformed range. *)
C21_ErrorCarriesToken ==
    Rejected => Occurs(token, Display(parsed[1].val))

----------------------------------------------------------------------------
(* main.rs and commands/: the subcommands, from main's dispatch to the exit *)

MaxArgs == 2

\* the port tokens given on the command line
ArgTokens ==
    {<<"1">>, <<"2">>, <<"1", "-", "2">>, <<"+", "1">>, <<"a">>, <<"0">>, <<"2", "-", "1">>}

RawPorts == UNION {[1..n -> ArgTokens] : n \in 0..MaxArgs}

\* the values of --poll
PollIntervals == {MillisPerSec \div 2, MillisPerSec}

\* the clock of the model stops here
MaxClockMs == (MaxTimeoutSecs + 1) * MillisPerSec

\* .with_context(|| format!("invalid port: '{s}'"))
WithContext(s, e) == [context |-> <<"invalid port: '">> \o s \o <<"'">>, source |-> e]

RECURSIVE ParsePorts(_)
\* parse_ports: collect() ends at the first token that PortSpec::parse rejects
ParsePorts(raw) ==
    IF raw = <<>> THEN Ok(<<>>)
    ELSE LET r == PortSpecParse(Head(raw))
         IN  IF ~r.ok THEN Err(WithContext(Head(raw), r.val))
             ELSE LET rest == ParsePorts(Tail(raw))
                  IN  IF rest.ok THEN Ok(<<r.val>> \o rest.val) ELSE rest

CmdInit ==
    /\ KillIdle
    /\ ScanIdle
    /\ ParseIdle
    /\ TuiIdle
    /\ SysIdle
    /\ \/ cmd = "kill" /\ args \in [ports : RawPorts, dry_run : BOOLEAN]
       \/ cmd = "list" /\ args \in [ports : RawPorts]
       \/ cmd = "watch" /\ args \in [ports : RawPorts, poll_interval_ms : PollIntervals]
       \/ cmd = "wait" /\ args \in [port : PortNumbers,
                                    condition : {"Free", "Occupied"},
                                    timeout_secs : 0..MaxTimeoutSecs,
                                    poll_interval_ms : PollIntervals]
       \/ cmd = "free" /\ args \in [start : PortNumbers, max : PortNumbers]
    /\ cpc = "main"
    /\ running = TRUE
    /\ clock = 0
    /\ ports = <<>>
    /\ port_i = 1
    /\ pending = <<>>
    /\ is_free = None
    /\ outcome = Outcome("none", None, -1, "")
    /\ failures = FALSE
    /\ nscans = 0
    /\ nsignals = 0
    /\ observations = <<>>
    /\ met_scans = 0
    /\ signalled = FALSE
    /\ rechecked = FALSE

\* the command returns o to main, and main exits
Exit(o) ==
    /\ cpc' = "exit"
    /\ outcome' = o

\* a scanner call that fails: the ? operator returns the error
ScanError == Outcome("Err", "scan", 1, "")

\* main: let ports = parse_ports(&args.ports)?; and the call of execute
ParseThenExecute(first) ==
    /\ cpc = "main"
    /\ LET r == ParsePorts(args.ports)
       IN  IF ~r.ok
           THEN /\ Exit(Outcome("Err", r.val, 1, ""))
                /\ ports' = ports
           ELSE /\ ports' = FlatMapExpand(r.val)
                /\ cpc' = first
                /\ outcome' = outcome
    /\ UNCHANGED <<cmd, args, running, clock, port_i, pending, is_free, failures, nscans,
                   nsignals, observations, met_scans, signalled, rechecked>>
    /\ UNCHANGED <<vars, scanVars, parseVars, tuiVars, sysVars>>

\* Some(Commands::Kill(args))
MainKill == cmd = "kill" /\ ParseThenExecute("scan")

\* Some(Commands::List(args))
MainList == cmd = "list" /\ ParseThenExecute("scan")

\* Some(Commands::Watch(args)), and watch::execute up to its loop: the flag is
\* created true and registered with both signals
MainWatch == cmd = "watch" /\ ParseThenExecute("loop")

\* Some(Commands::Wait(args)), and wait::execute up to its loop
MainWait ==
    /\ cmd = "wait"
    /\ cpc = "main"
    /\ cpc' = "loop"
    /\ clock' = 0
    /\ running' = TRUE
    /\ UNCHANGED <<cmd, args, ports, port_i, pending, is_free, outcome, failures, nscans,
                   nsignals, observations, met_scans, signalled, rechecked>>
    /\ UNCHANGED <<vars, scanVars, parseVars, tuiVars, sysVars>>

\* Some(Commands::Free(args)), and free::execute up to its loop
MainFree ==
    /\ cmd = "free"
    /\ cpc = "main"
    /\ cpc' = "scan"
    /\ port_i' = args.start
    /\ UNCHANGED <<cmd, args, running, clock, ports, pending, is_free, outcome, failures,
                   nscans, nsignals, observations, met_scans, signalled, rechecked>>
    /\ UNCHANGED <<vars, scanVars, parseVars, tuiVars, sysVars>>

\* list::execute without ports: scanner.find_all_listening()?
ListAll ==
    /\ cmd = "list"
    /\ cpc = "scan"
    /\ ports = <<>>
    /\ nscans' = nscans + 1
    /\ \/ Exit(ScanError)
       \/ Exit(Outcome("Ok", None, 0, ""))
    /\ UNCHANGED <<cmd, args, running, clock, ports, port_i, pending, is_free, failures,
                   nsignals, observations, met_scans, signalled, rechecked>>
    /\ UNCHANGED <<vars, scanVars, parseVars, tuiVars, sysVars>>

\* for port in &ports: scanner.find_processes_by_port(*port)? in kill, list and
\* watch; the processes found are printed (list) or killed one by one
PortScan ==
    /\ cmd \in {"kill", "list", "watch"}
    /\ cpc = "scan"
    /\ port_i <= Len(ports)
    /\ nscans' = nscans + 1
    /\ \/ /\ Exit(ScanError)
          /\ UNCHANGED <<port_i, pending>>
       \/ \E pids \in SUBSET Pids :
            LET list == ScanResult(pids, ports[port_i])
            IN  /\ outcome' = outcome
                /\ IF cmd = "list" \/ list = <<>>
                   THEN /\ pending' = <<>>
                        /\ port_i' = port_i + 1
                        /\ cpc' = cpc
                   ELSE /\ pending' = list
                        /\ port_i' = port_i
                        /\ cpc' = "kill"
    /\ UNCHANGED <<cmd, args, running, clock, ports, is_free, failures, nsignals,
                   observations, met_scans, signalled, rechecked>>
    /\ UNCHANGED <<vars, scanVars, parseVars, tuiVars, sysVars>>

\* killer::kill_process(process, &kill_config) on the next process found; watch
\* always has dry_run: false
KillProcess ==
    /\ cmd \in {"kill", "watch"}
    /\ cpc = "kill"
    /\ LET dry == cmd = "kill" /\ args.dry_run
       IN  \E success \in BOOLEAN :
             /\ dry => success
             /\ nsignals' = IF dry THEN nsignals ELSE nsignals + 1
             /\ failures' = (failures \/ ~success)
    /\ pending' = Tail(pending)
    /\ IF Tail(pending) = <<>>
       THEN cpc' = "scan" /\ port_i' = port_i + 1
       ELSE cpc' = cpc /\ port_i' = port_i
    /\ UNCHANGED <<cmd, args, running, clock, ports, is_free, outcome, nscans,
                   observations, met_scans, signalled, rechecked>>
    /\ UNCHANGED <<vars, scanVars, parseVars, tuiVars, sysVars>>

\* the end of the for loop over the ports: kill returns Ok(all_success) and main
\* exits with 1 on false, list returns Ok(()), watch goes to sleep
ForEnd ==
    /\ cmd \in {"kill", "list", "watch"}
    /\ cpc = "scan"
    /\ port_i > Len(ports)
    /\ cmd = "list" => ports # <<>>
    /\ CASE cmd = "kill" ->
              Exit(IF failures THEN Outcome("Ok(false)", None, 1, "")
                               ELSE Outcome("Ok(true)", None, 0, ""))
         [] cmd = "list" -> Exit(Outcome("Ok", None, 0, ""))
         [] cmd = "watch" -> cpc' = "sleep" /\ outcome' = outcome
    /\ UNCHANGED <<cmd, args, running, clock, ports, port_i, pending, is_free, failures,
                   nscans, nsignals, observations, met_scans, signalled, rechecked>>
    /\ UNCHANGED <<vars, scanVars, parseVars, tuiVars, sysVars>>

\* while running.load(Ordering::Relaxed) in watch and wait, and what follows the
\* loop when the flag is false
LoopCheck ==
    /\ cmd \in {"watch", "wait"}
    /\ cpc = "loop"
    /\ rechecked' = (rechecked \/ signalled)
    /\ IF running
       THEN /\ cpc' = "scan"
            /\ port_i' = 1
            /\ outcome' = outcome
       ELSE /\ port_i' = port_i
            /\ Exit(IF cmd = "watch"
                    THEN Outcome("Ok", None, 0, "Watch mode stopped.")
                    ELSE Outcome("Ok(false)", None, 1, "Interrupted."))
    /\ UNCHANGED <<cmd, args, running, clock, ports, pending, is_free, failures, nscans,
                   nsignals, observations, met_scans, signalled>>
    /\ UNCHANGED <<vars, scanVars, parseVars, tuiVars, sysVars>>

\* signal_hook::flag::register(signal, flag): the handler stores true in the
\* flag whenever the signal arrives, and the signal no longer ends the process
SignalDelivered ==
    /\ cmd \in {"watch", "wait"}
    /\ cpc \in {"loop", "scan", "kill", "decide", "sleep"}
    /\ running' = TRUE
    /\ signalled' = TRUE
    /\ UNCHANGED <<cmd, args, cpc, clock, ports, port_i, pending, is_free, outcome, failures,
                   nscans, nsignals, observations, met_scans, rechecked>>
    /\ UNCHANGED <<vars, scanVars, parseVars, tuiVars, sysVars>>

\* thread::sleep(poll_interval) at the end of an iteration of watch and wait
PollSleep ==
    /\ cmd \in {"watch", "wait"}
    /\ cpc = "sleep"
    /\ clock < MaxClockMs
    /\ clock' \in SleepEnds(clock, args.poll_interval_ms)
    /\ cpc' = "loop"
    /\ UNCHANGED <<cmd, args, running, ports, port_i, pending, is_free, outcome, failures,
                   nscans, nsignals, observations, met_scans, signalled, rechecked>>
    /\ UNCHANGED <<vars, scanVars, parseVars, tuiVars, sysVars>>

\* match opts.condition { Free => is_free, Occupied => !is_free }
ConditionMet(condition, free) == IF condition = "Free" THEN free ELSE ~free

\* mutant: the timeout is compared with the elapsed time in another unit
WaitStepUnits_Mut(condition, free, timeout_secs, now) ==
    IF ConditionMet(condition, free) THEN "ready"
    ELSE IF timeout_secs # 0 /\ now >= timeout_secs THEN "timeout"
    ELSE "sleep"

\* mutant: the timeout is tested before the condition
WaitStep_Mut(condition, free, timeout_secs, now) ==
    IF timeout_secs # 0 /\ now >= timeout_secs * MillisPerSec THEN "timeout"
    ELSE IF ConditionMet(condition, free) THEN "ready"
    ELSE "sleep"

\* what an iteration of wait does with the result of its scan; the timeout is
\* None when timeout_secs is 0
WaitStep(condition, free, timeout_secs, now) ==
    IF ConditionMet(condition, free) THEN "ready"
    ELSE IF timeout_secs # 0 /\ now >= timeout_secs * MillisPerSec THEN "timeout"
    ELSE "sleep"

\* wait: let processes = scanner.find_processes_by_port(opts.port)?
WaitScan ==
    /\ cmd = "wait"
    /\ cpc = "scan"
    /\ nscans' = nscans + 1
    /\ \/ /\ Exit(ScanError)
          /\ UNCHANGED <<is_free, met_scans>>
       \/ \E free \in BOOLEAN :
            /\ is_free' = Some(free)
            /\ met_scans' = IF ConditionMet(args.condition, free)
                            THEN met_scans + 1 ELSE met_scans
            /\ cpc' = "decide"
            /\ outcome' = outcome
    /\ UNCHANGED <<cmd, args, running, clock, ports, port_i, pending, failures, nsignals,
                   observations, signalled, rechecked>>
    /\ UNCHANGED <<vars, scanVars, parseVars, tuiVars, sysVars>>

\* wait: return Ok(true), return Ok(false) on timeout, or go to sleep
WaitDecide ==
    /\ cmd = "wait"
    /\ cpc = "decide"
    /\ LET step == WaitStep(args.condition, is_free[1], args.timeout_secs, clock)
       IN  CASE step = "ready" -> Exit(Outcome("Ok(true)", None, 0, "ready"))
             [] step = "timeout" -> Exit(Outcome("Ok(false)", None, 1, "timeout"))
             [] step = "sleep" -> cpc' = "sleep" /\ outcome' = outcome
    /\ UNCHANGED <<cmd, args, running, clock, ports, port_i, pending, is_free, failures,
                   nscans, nsignals, observations, met_scans, signalled, rechecked>>
    /\ UNCHANGED <<vars, scanVars, parseVars, tuiVars, sysVars>>

\* mutant: the search goes on after a free port
FreeFound_Mut(pids) == FALSE

\* if processes.is_empty()
FreeFound(pids) == pids = {}

\* free: for port in opts.start..=opts.max, one scan
FreeScan ==
    /\ cmd = "free"
    /\ cpc = "scan"
    /\ port_i <= args.max
    /\ nscans' = nscans + 1
    /\ \/ /\ Exit(ScanError)
          /\ UNCHANGED <<port_i, observations>>
       \/ \E pids \in SUBSET Pids :
            /\ observations' = Append(observations, [port |-> port_i, free |-> pids = {}])
            /\ IF FreeFound(pids)
               THEN /\ Exit(Outcome("Ok(Some)", Some(port_i), 0, ""))
                    /\ port_i' = port_i
               ELSE /\ port_i' = port_i + 1
                    /\ cpc' = cpc
                    /\ outcome' = outcome
    /\ UNCHANGED <<cmd, args, running, clock, ports, pending, is_free, failures, nsignals,
                   met_scans, signalled, rechecked>>
    /\ UNCHANGED <<vars, scanVars, parseVars, tuiVars, sysVars>>

\* free: the range is exhausted: Ok(None), and main exits with 1
FreeEnd ==
    /\ cmd = "free"
    /\ cpc = "scan"
    /\ port_i > args.max
    /\ Exit(Outcome("Ok(None)", None, 1, "No free port found"))
    /\ UNCHANGED <<cmd, args, running, clock, ports, port_i, pending, is_free, failures,
                   nscans, nsignals, observations, met_scans, signalled, rechecked>>
    /\ UNCHANGED <<vars, scanVars, parseVars, tuiVars, sysVars>>

CmdNext ==
    \/ MainKill
    \/ MainList
    \/ MainWatch
    \/ MainWait
    \/ MainFree
    \/ ListAll
    \/ PortScan
    \/ KillProcess
    \/ ForEnd
    \/ LoopCheck
    \/ SignalDelivered
    \/ PollSleep
    \/ WaitScan
    \/ WaitDecide
    \/ FreeScan
    \/ FreeEnd

CmdSpec == CmdInit /\ [][CmdNext]_cmdVars

\* wait alone, with a thread that keeps running: every step of the command that
\* can be taken is taken in the end (a sleep ends, a scan returns)
WaitInit == CmdInit /\ cmd = "wait"

WaitNext ==
    \/ MainWait
    \/ LoopCheck
    \/ SignalDelivered
    \/ PollSleep
    \/ WaitScan
    \/ WaitDecide

WaitProgram == MainWait \/ LoopCheck \/ PollSleep \/ WaitScan \/ WaitDecide

WaitLiveSpec == WaitInit /\ [][WaitNext]_cmdVars /\ WF_cmdVars(WaitProgram)

----------------------------------------------------------------------------
(* Vocabulary of the properties of the commands *)

DashesOf(t) == {i \in 1..Len(t) : t[i] = "-"}

\* t is N (1..65535) or N1-N2 (1 <= N1 <= N2 <= 65535)
InGrammar(t) ==
    \/ IsDigits(t) /\ Value(t, 0) \in 1..PortMax
    \/ /\ Cardinality(DashesOf(t)) = 1
       /\ LET d == CHOOSE i \in DashesOf(t) : TRUE
              l == SubSeq(t, 1, d - 1)
              r == SubSeq(t, d + 1, Len(t))
          IN  /\ IsDigits(l)
              /\ IsDigits(r)
              /\ 1 <= Value(l, 0)
              /\ Value(l, 0) <= Value(r, 0)
              /\ Value(r, 0) <= PortMax

TakesPorts == cmd \in {"kill", "list", "watch"}

Exited == cpc = "exit"

TimeoutMs == args.timeout_secs * MillisPerSec

(* C22: when a port token given to kill, list or watch is invalid, the command
   ends with an error before any scan is performed and before any signal is
   sent, also when valid tokens precede the invalid one. *)
C22_InvalidTokenFailsFast ==
    (TakesPorts /\ \E i \in 1..Len(args.ports) : ~InGrammar(args.ports[i])) =>
        /\ nscans = 0
        /\ nsignals = 0
        /\ cpc \in {"main", "exit"}
        /\ Exited => (outcome.ret = "Err" /\ outcome.exit_code = 1)

(* C24: once SIGINT or SIGTERM has been delivered to a running watch, the next
   evaluation of the loop condition ends the loop: no further cycle is
   started, "Watch mode stopped." is reported and execute returns Ok. *)
C24_WatchStopsOnSignal ==
    (cmd = "watch" /\ rechecked) =>
        /\ Exited
        /\ outcome.ret = "Ok"
        /\ outcome.msg = "Watch mode stopped."

(* C25: wait returns Ok(true), exit code 0, exactly when a scan observed the
   requested condition; it returns at the first such scan without sleeping
   first, at once when the first scan observes it, and also when the timeout
   has elapsed by then (the condition is tested before the timeout). *)
C25_WaitReturnsAtFirstObservation ==
    cmd = "wait" =>
        /\ outcome.ret = "Ok(true)" <=> (Exited /\ met_scans >= 1)
        /\ outcome.ret = "Ok(true)" =>
             (outcome.exit_code = 0 /\ ConditionMet(args.condition, is_free[1]))
        /\ met_scans >= 1 => (met_scans = 1 /\ cpc \in {"decide", "exit"})
        /\ (met_scans = 1 /\ nscans = 1) => clock = 0

\* the condition is observed by a later scan, made after the timeout elapsed
C25_Witness ==
    /\ cmd = "wait"
    /\ Exited
    /\ outcome.ret = "Ok(true)"
    /\ args.timeout_secs > 0
    /\ clock >= TimeoutMs
    /\ nscans >= 2

\* what wait has done so far agrees with its timeout
TimeoutRespected ==
    cmd = "wait" =>
        /\ outcome.msg = "timeout" =>
             /\ args.timeout_secs > 0
             /\ clock >= TimeoutMs
             /\ met_scans = 0
             /\ outcome.ret = "Ok(false)"
             /\ outcome.exit_code = 1
        /\ (cpc = "sleep" /\ args.timeout_secs > 0) => clock < TimeoutMs
        /\ (Exited /\ met_scans = 0 /\ outcome.ret # "Err") =>
             (args.timeout_secs > 0 /\ outcome.msg = "timeout")

(* C26: with timeout_secs > 0 and a condition that no scan observes, wait ends
   in the end with Ok(false), exit code 1 and status timeout, at the first
   iteration whose scan misses the condition with the elapsed time at or past
   the timeout, and never before the timeout has elapsed; with timeout_secs = 0
   it never reports a timeout. A failing scan ends wait with its error. *)
C26_WaitTimesOut ==
    /\ []TimeoutRespected
    /\ (cmd = "wait" /\ args.timeout_secs > 0) ~> Exited

\* a timeout of 1 s reported by the second or a later iteration
C26_Witness ==
    /\ cmd = "wait"
    /\ Exited
    /\ outcome.msg = "timeout"
    /\ args.timeout_secs = 1
    /\ clock >= MillisPerSec
    /\ nscans >= 2
    /\ met_scans = 0

(* C27: once SIGINT or SIGTERM has been delivered to a running wait whose
   condition is not met, the next evaluation of the loop condition ends the
   loop and execute returns Ok(false) through the Interrupted path, without
   waiting for the timeout and also with timeout_secs = 0. *)
C27_WaitStopsOnSignal ==
    (cmd = "wait" /\ rechecked) =>
        /\ Exited
        /\ outcome.ret = "Ok(false)"
        /\ outcome.msg = "Interrupted."

\* the scans of free so far found every port from start on occupied
AllOccupied ==
    \A i \in 1..Len(observations) :
        observations[i] = [port |-> args.start + i - 1, free |-> FALSE]

(* C28: free returns the lowest port p of [start, max] whose scan found no
   process, after scans that found every port from start to p - 1 occupied,
   and never a port on which a process was found; when every port of the range
   is occupied, or the range is empty, it returns no port and the command
   exits with failure. *)
C28_FreeReturnsLowestFreePort ==
    (cmd = "free" /\ Exited /\ outcome.ret # "Err") =>
        \/ /\ outcome.ret = "Ok(Some)"
           /\ outcome.exit_code = 0
           /\ LET p == outcome.val[1]
                  n == Len(observations)
              IN  /\ p \in args.start..args.max
                  /\ n = p - args.start + 1
                  /\ observations[n] = [port |-> p, free |-> TRUE]
                  /\ \A i \in 1..(n - 1) :
                       observations[i] = [port |-> args.start + i - 1, free |-> FALSE]
        \/ /\ outcome.ret = "Ok(None)"
           /\ outcome.exit_code = 1
           /\ AllOccupied
           /\ Len(observations) = Cardinality(args.start..args.max)

\* the first port of the range was found occupied and the second one is returned
C28_Witness ==
    /\ cmd = "free"
    /\ Exited
    /\ outcome.ret = "Ok(Some)"
    /\ outcome.val = Some(args.start + 1)
    /\ Len(observations) = 2
    /\ ~observations[1].free

----------------------------------------------------------------------------
\* an attempt has begun and its result is not yet in results
InProgress == pc \in {"poll", "sleep", "returned"}

\* a keeps elements of b, in the order of b
IsSubSeqOf(a, b) ==
    \E f \in [1..Len(a) -> 1..Len(b)] :
        /\ \A i \in 1..Len(a) : a[i] = b[f[i]]
        /\ \A i, j \in 1..Len(a) : i < j => f[i] < f[j]

OneAtATime ==
    /\ Len(attempted) - Len(results) = IF InProgress THEN 1 ELSE 0
    /\ \A i \in 1..Len(results) : results[i].process = processes[i]
    /\ \A i \in 1..Len(attempted) : attempted[i] = processes[i]
    /\ IsSubSeqOf(processes, scanned)
    /\ pc = "scan" => portIdx = scans + 1

\* a scan is made only when no attempt is in progress and every process of the
\* ports before has its result, and it is the scan of the next port of the list
ScanAfterAttempts ==
    scans' # scans =>
        /\ scans' = scans + 1
        /\ portIdx = scans'
        /\ ~InProgress
        /\ result = None
        /\ Len(results) = Len(processes)
        /\ Len(attempted) = Len(processes)
        /\ \A i \in 1..Len(scanned') : scanned'[i].port = Ports[scans']

(* C31: the kill command handles ports and processes one after the other in the
   order of the expanded port list: a port is scanned only after every attempt
   for the ports before it has returned, at most one attempt is in progress at
   any time, and the results of a port are in the order in which the scan
   returned its processes. *)
C31_StrictlySequential == []OneAtATime /\ [][ScanAfterAttempts]_vars

\* the second process of the second port is being killed after the first one
C31_Witness ==
    /\ pc = "returned"
    /\ portIdx = 2
    /\ scans = 2
    /\ procIdx = 2
    /\ Len(results) = 1
    /\ results[1].process = scanned[1]
    /\ Len(attempted) = 2

(* C34: in graceful mode the liveness of the target is probed at least once
   between the acceptance of SIGTERM and a SIGKILL, so SIGKILL is sent only to
   a process seen alive after SIGTERM, for every graceful_timeout, 0
   included. *)
C34_ProbedBeforeSigkill ==
    (Graceful /\ Len(sent) = 2) =>
        /\ Len(probes) >= 1
        /\ \A i \in 1..Len(probes) : probes[i] = "OK"

(* C36: every KillResult that kill_process returns, on every path, has an
   error string exactly when success is false, and its process is the
   ProcessInfo that was passed in. *)
C36_ErrorIffFailure ==
    Returned =>
        /\ (R.error # None) <=> ~R.success
        /\ R.process = Target
        /\ R.process = attempted[Len(attempted)]

\* an escalation whose SIGKILL was refused: a failure with its error
C36_Witness ==
    /\ Returned
    /\ Graceful
    /\ Len(sent) = 2
    /\ ~R.success
    /\ R.error = Some(MapErr("EPERM"))
    /\ R.process = Target

----------------------------------------------------------------------------
(* killer.rs: send_signal and is_process_alive on their own, for every kind of
   u32 pid. A u32 is kept as its top bit (hi) and its low 31 bits (lo), its
   value being hi * 2^31 + lo. *)

I32Max == 2147483647
I32Half == 1073741824

U32(hi, lo) == [hi |-> hi, lo |-> lo]

\* the pids tried: 0, 1, 2, 2^31 - 2, 2^31 - 1 and the same with the top bit set
\* (2^31, 2^31 + 1, 2^31 + 2, 2^32 - 2, 2^32 - 1)
PidInputs == {U32(hi, lo) : hi \in {0, 1}, lo \in {0, 1, 2, I32Max - 1, I32Max}}

\* `pid as i32`: the same 32 bits read in two's complement
AsI32(p) == IF p.hi = 0 THEN p.lo ELSE (p.lo - I32Half) - I32Half

\* Pid::from_raw keeps the value
FromRaw(raw) == raw

\* what signal::kill(pid, ..) makes of its pid argument, as kill(2) defines it
Addressee(raw) ==
    CASE raw > 0  -> "the process"
      [] raw = 0  -> "the caller's process group"
      [] raw = -1 -> "every process"
      [] OTHER    -> "a process group"

SysAnswers == {"OK", "EPERM", "ESRCH"}

SysInit ==
    /\ KillIdle
    /\ ScanIdle
    /\ ParseIdle
    /\ CmdIdle
    /\ TuiIdle
    /\ upid \in PidInputs
    /\ syscall = [op |-> "none"]

\* send_signal(pid, signal): one kill(2) with the signal, its error mapped
SysSendSignal ==
    \E signal \in KillSignal, answer \in SysAnswers :
        /\ syscall' = [op |-> "send_signal", raw |-> FromRaw(AsI32(upid)),
                       sig |-> Some(ToString(signal)),
                       ret |-> IF answer = "OK" THEN [ok |-> TRUE, val |-> <<>>]
                               ELSE [ok |-> FALSE, val |-> MapErr(answer)]]
        /\ UNCHANGED <<upid, vars, scanVars, parseVars, cmdVars, tuiVars>>

\* is_process_alive(pid): one kill(2) with no signal, true when it succeeds
SysIsProcessAlive ==
    \E answer \in SysAnswers :
        /\ syscall' = [op |-> "is_process_alive", raw |-> FromRaw(AsI32(upid)),
                       sig |-> None, ret |-> (answer = "OK")]
        /\ UNCHANGED <<upid, vars, scanVars, parseVars, cmdVars, tuiVars>>

SysNext == SysSendSignal \/ SysIsProcessAlive

SysSpec == SysInit /\ [][SysNext]_sysVars

KillCalled == syscall.op # "none"

(* C35: whatever the u32 pid, 0 and values of 2^31 or more included, the
   process id handed to kill(2) by send_signal and by is_process_alive is
   strictly positive, so only the process of that pid is addressed, never a
   process group and never every process. *)
C35_OnlyTheNamedProcess ==
    KillCalled => (syscall.raw > 0 /\ Addressee(syscall.raw) = "the process")

----------------------------------------------------------------------------
(* tui.rs: the interactive table. The fields of App that only feed the
   drawing (status_message, theme) are left out; last_refresh and the start
   times of the zapping animations are kept as the freedom of the loop to find
   a refresh due, or an animation over, at any iteration. Indices into
   processes and rows of the table count from 0, as in the code. *)

MaxFilter == 1

TuiProcess(pid, port, name) ==
    [pid |-> pid, port |-> port, name |-> name, protocol |-> "Tcp", command |-> None]

\* the listening processes a scan of the host may report
Listening == {TuiProcess(1, 2, <<"a">>), TuiProcess(2, 1, <<"S">>)}

\* the sequences that list each member of set once, in any order
Orderings(set) ==
    {q \in [1..Cardinality(set) -> set] : \A i, j \in 1..Cardinality(set) : q[i] = q[j] => i = j}

\* scanner.find_all_listening(): an error, or some of the processes in the
\* order the scanner met them
ScanResults ==
    {[ok |-> FALSE, val |-> <<>>]}
        \cup {[ok |-> TRUE, val |-> q] : q \in UNION {Orderings(set) : set \in SUBSET Listening}}

SortColumns == {"Port", "Pid", "Name", "Protocol"}

\* char::to_lowercase, on the characters that occur
ToLowercase(c) ==
    CASE c = "S" -> "s"
      [] c = "Y" -> "y"
      [] c = "N" -> "n"
      [] OTHER   -> c

Lowercase(text) == [i \in 1..Len(text) |-> ToLowercase(text[i])]

\* the order of the characters that names are made of
CharOrd(c) ==
    CASE c = "a" -> 97
      [] c = "s" -> 115
      [] c = "S" -> 83

\* the comparison of two strings of one character each
StrLess(a, b) == CharOrd(a[1]) < CharOrd(b[1])

\* the closure of sort_processes: the Ordering of a against b, as -1, 0, 1
CompareProcesses(self, a, b) ==
    LET less(x, y) ==
            CASE self.sort_column = "Port"     -> x.port < y.port
              [] self.sort_column = "Pid"      -> x.pid < y.pid
              [] self.sort_column = "Name"     -> StrLess(Lowercase(x.name), Lowercase(y.name))
              [] self.sort_column = "Protocol" -> (x.protocol # "Tcp") /\ (y.protocol = "Tcp")
        ord == IF less(a, b) THEN -1 ELSE IF less(b, a) THEN 1 ELSE 0
    IN  IF self.sort_ascending THEN ord ELSE -ord

RECURSIVE SortProcesses(_, _)
\* sort_processes: sort_by is stable, so processes that compare equal keep the
\* order of the scan
SortProcesses(self, procs) ==
    IF procs = <<>> THEN <<>>
    ELSE LET front  == SortProcesses(self, SubSeq(procs, 1, Len(procs) - 1))
             p      == procs[Len(procs)]
             before == Cardinality({i \in 1..Len(front) : CompareProcesses(self, front[i], p) <= 0})
         IN  SubSeq(front, 1, before) \o <<p>> \o SubSeq(front, before + 1, Len(front))

\* the closure of filtered_indices
Matches(p, query) ==
    \/ Occurs(query, Lowercase(p.name))
    \/ Occurs(query, Decimal(p.port))
    \/ Occurs(query, Decimal(p.pid))
    \/ (p.command # None /\ Occurs(query, Lowercase(p.command[1])))

RECURSIVE IndicesFrom(_, _, _)
IndicesFrom(self, query, i) ==
    IF i >= Len(self.processes) THEN <<>>
    ELSE (IF Matches(self.processes[i + 1], query) THEN <<i>> ELSE <<>>)
             \o IndicesFrom(self, query, i + 1)

\* filtered_indices: the indices of the processes the filter lets through
FilteredIndices(self) ==
    IF self.filter_text = <<>> THEN [i \in 1..Len(self.processes) |-> i - 1]
    ELSE IndicesFrom(self, Lowercase(self.filter_text), 0)

\* slice.get(i) and vec[i]
Get(list, i) == IF i < Len(list) THEN Some(list[i + 1]) ELSE None
At(list, i) == list[i + 1]

\* current_process_key
CurrentProcessKey(self) ==
    LET filtered == FilteredIndices(self)
        idx == IF self.table_state = None THEN None ELSE Get(filtered, self.table_state[1])
    IN  IF idx = None THEN None
        ELSE Some(<<At(self.processes, idx[1]).pid, At(self.processes, idx[1]).port>>)

\* mutant: the highlighted row is left where it was when the list shrinks
RefreshProcesses_Mut(self, scan) ==
    [self EXCEPT !.processes = IF scan.ok THEN SortProcesses(self, scan.val) ELSE @,
                 !.selected = {}]

\* mutant: the multi-selection is kept across the replacement of the list
RefreshKeepsSelected_Mut(self, scan) ==
    LET kept == {i \in self.selected : scan.ok => i < Len(scan.val)}
        fresh == [self EXCEPT !.processes = IF scan.ok THEN SortProcesses(self, scan.val) ELSE @,
                              !.selected = kept]
        filtered == FilteredIndices(fresh)
    IN  [fresh EXCEPT !.table_state = IF filtered = <<>> THEN None ELSE Some(0)]

\* refresh_processes
RefreshProcesses(self, scan) ==
    LET old_selection == CurrentProcessKey(self)
        fresh == [self EXCEPT !.processes = IF scan.ok THEN SortProcesses(self, scan.val) ELSE @,
                              !.selected = {}]
        filtered == FilteredIndices(fresh)
        same == {table_row \in 0..(Len(filtered) - 1) :
                    LET p == At(fresh.processes, At(filtered, table_row))
                    IN  old_selection = Some(<<p.pid, p.port>>)}
        sel == IF fresh.table_state = None THEN 0 ELSE fresh.table_state[1]
    IN  IF same # {}
        THEN [fresh EXCEPT !.table_state = Some(CHOOSE r \in same : \A o \in same : r <= o)]
        ELSE IF filtered # <<>>
        THEN IF sel >= Len(filtered)
             THEN [fresh EXCEPT !.table_state = Some(Len(filtered) - 1)]
             ELSE fresh
        ELSE [fresh EXCEPT !.table_state = None]

\* move_selection
MoveSelection(self, delta) ==
    LET filtered == FilteredIndices(self)
        current == IF self.table_state = None THEN 0 ELSE self.table_state[1]
        moved == current + delta
        next == IF moved < 0 THEN 0
                ELSE IF moved > Len(filtered) - 1 THEN Len(filtered) - 1 ELSE moved
    IN  IF filtered = <<>> THEN [self EXCEPT !.table_state = None]
        ELSE [self EXCEPT !.table_state = Some(next)]

\* the index of the highlighted row, if the row exists
Highlighted(self) ==
    IF self.table_state = None THEN None
    ELSE Get(FilteredIndices(self), self.table_state[1])

\* toggle_selection
ToggleSelection(self) ==
    LET orig_idx == Highlighted(self)
    IN  IF orig_idx = None THEN self
        ELSE IF orig_idx[1] \in self.selected
        THEN [self EXCEPT !.selected = @ \ {orig_idx[1]}]
        ELSE [self EXCEPT !.selected = @ \cup {orig_idx[1]}]

\* select_all
SelectAll(self) ==
    LET filtered == FilteredIndices(self)
    IN  IF Cardinality(self.selected) = Len(filtered) THEN [self EXCEPT !.selected = {}]
        ELSE [self EXCEPT !.selected = {filtered[i] : i \in 1..Len(filtered)}]

\* the targets of kill_selected and of request_kill_confirmation: the
\* multi-selection, or the highlighted row when nothing is selected
Targets(self) ==
    IF self.selected = {}
    THEN (IF Highlighted(self) = None THEN {} ELSE {Highlighted(self)[1]})
    ELSE self.selected

\* the targets that kill_selected calls kill_process on
InList(self, targets) == {idx \in targets : idx < Len(self.processes)}

\* kill_selected; success tells, for each index, whether kill_process succeeds
KillSelected(self, success) ==
    IF Targets(self) = {} THEN self
    ELSE [self EXCEPT !.zapping = @ \cup {idx \in InList(self, Targets(self)) : success[idx]},
                      !.selected = {}]

\* cycle_sort
CycleSort(self, scan) ==
    LET next == CASE self.sort_column = "Port"     -> "Pid"
                  [] self.sort_column = "Pid"      -> "Name"
                  [] self.sort_column = "Name"     -> "Protocol"
                  [] self.sort_column = "Protocol" -> "Port"
        turned == IF next = self.sort_column
                  THEN [self EXCEPT !.sort_ascending = ~@]
                  ELSE [self EXCEPT !.sort_column = next, !.sort_ascending = TRUE]
    IN  RefreshProcesses(turned, scan)

\* request_kill_confirmation
RequestKillConfirmation(self, success) ==
    IF Targets(self) = {} THEN self
    ELSE IF self.config.skip_confirm_dialog THEN KillSelected(self, success)
    ELSE [self EXCEPT !.show_confirm_dialog = TRUE,
                      !.confirm_target_count = Cardinality(Targets(self))]

\* key events: a key code, whether Ctrl is held, and the kind of the event
Press(code) == [code |-> code, ctrl |-> FALSE, kind |-> "Press"]
CtrlC == [code |-> "c", ctrl |-> TRUE, kind |-> "Press"]

\* KeyCode::Char(_), for the characters that are typed
Chars == {"y", "Y", "n", "N", "q", " ", "a", "x", "r", "s", "/", "?", "c", "1"}

\* the characters that are typed into the filter
FilterChars == {"a", "s", "1", "q"}

KeyCodes == Chars \cup {"Esc", "Enter", "Backspace", "Up", "Down", "Home", "End", "F1"}

KeyEvents ==
    {Press(code) : code \in KeyCodes} \cup {CtrlC, [Press("y") EXCEPT !.kind = "Release"]}

\* the branch of handle_key for an open confirmation dialog
DialogKey(self, key, success) ==
    IF key.code \in {"y", "Y"}
    THEN KillSelected([self EXCEPT !.show_confirm_dialog = FALSE], success)
    ELSE IF key.code \in {"n", "N", "Esc"}
    THEN [self EXCEPT !.show_confirm_dialog = FALSE]
    ELSE self

\* table_state.select(if self.filtered_indices().is_empty() { None } else { Some(0) })
SelectFirst(self) ==
    [self EXCEPT !.table_state = IF FilteredIndices(self) = <<>> THEN None ELSE Some(0)]

\* the branch of handle_key for filter mode
FilterKey(self, key) ==
    IF key.code \in {"Esc", "Enter"} THEN [self EXCEPT !.filter_mode = FALSE]
    ELSE IF key.code = "Backspace"
    THEN SelectFirst([self EXCEPT !.filter_text = SubSeq(@, 1, Len(@) - 1)])
    ELSE IF key.code \in Chars
    THEN SelectFirst([self EXCEPT !.filter_text = Append(@, key.code)])
    ELSE self

\* the last match of handle_key, when no dialog, filter or help is in the way
TableKey(self, key, scan, success) ==
    CASE key.code \in {"q", "Esc"}  -> [self EXCEPT !.should_quit = TRUE]
      [] key.code = "c" /\ key.ctrl -> [self EXCEPT !.should_quit = TRUE]
      [] key.code \in {"Up", "k"}   -> MoveSelection(self, -1)
      [] key.code \in {"Down", "j"} -> MoveSelection(self, 1)
      [] key.code \in {"Home", "g"} ->
            IF FilteredIndices(self) # <<>> THEN [self EXCEPT !.table_state = Some(0)] ELSE self
      [] key.code \in {"End", "G"}  ->
            IF FilteredIndices(self) # <<>>
            THEN [self EXCEPT !.table_state = Some(Len(FilteredIndices(self)) - 1)]
            ELSE self
      [] key.code = " "             -> ToggleSelection(self)
      [] key.code = "a"             -> SelectAll(self)
      [] key.code \in {"Enter", "x"} -> RequestKillConfirmation(self, success)
      [] key.code = "r"             -> RefreshProcesses(self, scan)
      [] key.code = "s"             -> CycleSort(self, scan)
      [] key.code = "/"             -> [self EXCEPT !.filter_mode = TRUE, !.filter_text = <<>>]
      [] key.code = "?"             -> [self EXCEPT !.show_help = TRUE]
      [] OTHER                      -> self

\* mutant: the table's keys are handled although the dialog is open
HandleKey_Mut(self, key, scan, success) ==
    IF key.kind # "Press" THEN self
    ELSE IF self.show_confirm_dialog /\ key.code \in {"y", "Y", "n", "N", "Esc"}
    THEN DialogKey(self, key, success)
    ELSE IF self.filter_mode THEN FilterKey(self, key)
    ELSE IF self.show_help THEN [self EXCEPT !.show_help = FALSE]
    ELSE TableKey(self, key, scan, success)

\* handle_key
HandleKey(self, key, scan, success) ==
    IF key.kind # "Press" THEN self
    ELSE IF self.show_confirm_dialog THEN DialogKey(self, key, success)
    ELSE IF self.filter_mode THEN FilterKey(self, key)
    ELSE IF self.show_help THEN [self EXCEPT !.show_help = FALSE]
    ELSE TableKey(self, key, scan, success)

\* whether handle_key reaches kill_selected, by the dialog or past it
ReachesKill(self, key) ==
    /\ key.kind = "Press"
    /\ \/ self.show_confirm_dialog /\ key.code \in {"y", "Y"}
       \/ /\ ~self.show_confirm_dialog /\ ~self.filter_mode /\ ~self.show_help
          /\ key.code \in {"Enter", "x"}
          /\ self.config.skip_confirm_dialog

\* whether handle_key reaches refresh_processes
ReachesRefresh(self, key) ==
    /\ key.kind = "Press"
    /\ ~self.show_confirm_dialog /\ ~self.filter_mode /\ ~self.show_help
    /\ key.code \in {"r", "s"}

\* what handle_key makes of a key: the dialog confirms on it, is cancelled by
\* it or ignores it, or the key goes past the dialog
KeyClass(self, key) ==
    IF key.kind = "Press" /\ self.show_confirm_dialog
    THEN (IF key.code \in {"y", "Y"} THEN "confirm"
          ELSE IF key.code \in {"n", "N", "Esc"} THEN "cancel"
          ELSE "ignored")
    ELSE "key"

\* whether handle_key would push a character onto the filter text
Types(self, key) ==
    /\ key.kind = "Press"
    /\ ~self.show_confirm_dialog /\ self.filter_mode
    /\ key.code \in Chars

\* App::new, with the Config that Config::load found
AppNew(scan, config) ==
    LET blank == [processes |-> <<>>, table_state |-> None, selected |-> {},
                  should_quit |-> FALSE, show_help |-> FALSE,
                  sort_column |-> "Port", sort_ascending |-> TRUE,
                  filter_text |-> <<>>, filter_mode |-> FALSE, config |-> config,
                  show_confirm_dialog |-> FALSE, confirm_target_count |-> 0,
                  zapping |-> {}]
        fresh == RefreshProcesses(blank, scan)
    IN  IF fresh.processes # <<>> THEN [fresh EXCEPT !.table_state = Some(0)] ELSE fresh

Configs == [skip_confirm_dialog : BOOLEAN]

\* no scan is made
NoScan == [ok |-> FALSE, val |-> <<>>]

\* the multi-selection with, for each index, the process it denoted when it
\* entered the selection
Picked(self, new) ==
    {e \in picked : e.idx \in new.selected}
        \cup {[idx |-> i, process |-> At(self.processes, i)] : i \in new.selected \ self.selected}

\* the processes the dialog was opened for, while it is open
Asked(self, new) ==
    IF ~new.show_confirm_dialog THEN {}
    ELSE IF ~self.show_confirm_dialog
    THEN {At(self.processes, idx) : idx \in Targets(self)}
    ELSE asked

\* run_app up to its loop
TuiInit ==
    /\ KillIdle
    /\ ScanIdle
    /\ ParseIdle
    /\ CmdIdle
    /\ SysIdle
    /\ \E scan \in ScanResults, config \in Configs : app = AppNew(scan, config)
    /\ event = "new"
    /\ attempts = <<>>
    /\ picked = {}
    /\ asked = {}

\* the loop of run_app finds the animation of some zapped rows over, and
\* refreshes when none is left
ZapExpire ==
    /\ ~app.should_quit
    /\ app.zapping # {}
    /\ \E kept \in (SUBSET app.zapping) \ {app.zapping} :
         \E scan \in (IF kept = {} THEN ScanResults ELSE {NoScan}) :
            /\ app' = IF kept = {} THEN RefreshProcesses([app EXCEPT !.zapping = kept], scan)
                       ELSE [app EXCEPT !.zapping = kept]
            /\ picked' = Picked(app, app')
            /\ asked' = Asked(app, app')
    /\ event' = "zap"
    /\ attempts' = <<>>
    /\ UNCHANGED <<vars, scanVars, parseVars, cmdVars, sysVars>>

\* the loop of run_app finds REFRESH_RATE elapsed since the last refresh
AutoRefresh ==
    /\ ~app.should_quit
    /\ ~app.filter_mode
    /\ \E scan \in ScanResults :
            /\ app' = RefreshProcesses(app, scan)
            /\ picked' = Picked(app, app')
            /\ asked' = Asked(app, app')
    /\ event' = "auto"
    /\ attempts' = <<>>
    /\ UNCHANGED <<vars, scanVars, parseVars, cmdVars, sysVars>>

\* the loop of run_app reads a key event and hands it to handle_key
TuiKey ==
    /\ ~app.should_quit
    /\ \E key \in KeyEvents :
         /\ Types(app, key) => (Len(app.filter_text) < MaxFilter /\ key.code \in FilterChars)
         /\ \E scan \in (IF ReachesRefresh(app, key) THEN ScanResults ELSE {NoScan}),
               order \in (IF ReachesKill(app, key)
                          THEN Orderings(InList(app, Targets(app))) ELSE {<<>>}) :
              \E success \in [{order[i] : i \in 1..Len(order)} -> BOOLEAN] :
                /\ app' = HandleKey(app, key, scan, success)
                /\ attempts' = [i \in 1..Len(order) |-> At(app.processes, order[i])]
                /\ picked' = Picked(app, app')
                /\ asked' = Asked(app, app')
                /\ event' = KeyClass(app, key)
    /\ UNCHANGED <<vars, scanVars, parseVars, cmdVars, sysVars>>

TuiNext == ZapExpire \/ AutoRefresh \/ TuiKey

TuiSpec == TuiInit /\ [][TuiNext]_tuiVars

----------------------------------------------------------------------------
(* The TUI: properties *)

Members(list) == {list[i] : i \in 1..Len(list)}

ConfirmAsAsked ==
    event' = "confirm" =>
        /\ Len(attempts') = app.confirm_target_count
        /\ Members(attempts') = asked

(* C33: the processes that get a kill attempt when the user confirms are the
   ones targeted when the dialog was opened, and their number is the
   confirm_target_count the dialog shows, whatever refreshes happened between
   the opening of the dialog and the y. *)
C33_ConfirmKillsWhatWasAsked == [][ConfirmAsAsked]_tuiVars

AskFirst == ~app.config.skip_confirm_dialog

\* a kill attempt is made only by a y or Y given to the open dialog
KillOnlyOnConfirm ==
    attempts' # <<>> => (event' = "confirm" /\ app.show_confirm_dialog)

\* n, N and Esc close the dialog and do nothing else
CancelOnlyCloses ==
    event' = "cancel" =>
        /\ app.show_confirm_dialog
        /\ app' = [app EXCEPT !.show_confirm_dialog = FALSE]
        /\ attempts' = <<>>

\* any other key leaves the dialog open and the App as it was
OtherKeysIgnored ==
    event' = "ignored" =>
        /\ app.show_confirm_dialog
        /\ app' = app
        /\ attempts' = <<>>

DialogCaptures ==
    AskFirst => (KillOnlyOnConfirm /\ CancelOnlyCloses /\ OtherKeysIgnored)

(* C32: with skip_confirm_dialog = false a kill attempt is made only as the
   effect of y or Y pressed while the confirmation dialog is open; n, N and
   Esc close the dialog without a kill; every other key leaves the dialog
   open and changes neither the selection, the filter, the process list nor
   the quit flag. *)
C32_DialogCapturesInput == [][DialogCaptures]_tuiVars

C32_Witness ==
    /\ AskFirst
    /\ event = "confirm"
    /\ attempts # <<>>
    /\ ~app.show_confirm_dialog
    /\ ~app.should_quit

(* C37: after every key event and every refresh the highlighted row, when
   there is one, is a row of the current filtered list; there is none when
   the filtered list is empty. *)
C37_HighlightedRowExists ==
    ~app.should_quit =>
        /\ app.table_state # None => app.table_state[1] < Len(FilteredIndices(app))
        /\ FilteredIndices(app) = <<>> => app.table_state = None

C37_Witness ==
    /\ event = "auto"
    /\ app.filter_text # <<>>
    /\ Len(app.processes) = 2
    /\ Len(FilteredIndices(app)) = 1
    /\ app.table_state = Some(0)

\* every selected index is an index of the list and denotes the process it
\* denoted when it was selected
SelectionCurrent ==
    ~app.should_quit =>
        \A i \in app.selected :
            /\ i < Len(app.processes)
            /\ [idx |-> i, process |-> At(app.processes, i)] \in picked

\* a refresh or a change of the list empties the multi-selection, and a kill
\* of a multi-selection attempts the processes that were selected
SelectionClearedOnChange ==
    /\ (event' \in {"auto"} \/ app'.processes # app.processes \/
        app'.sort_column # app.sort_column) => app'.selected = {}
    /\ (attempts' # <<>> /\ app.selected # {}) =>
            Members(attempts') = {e.process : e \in picked}

(* C38: every index of the multi-selection is a valid index into the current
   process list and denotes the same ProcessInfo as when it was toggled; every
   operation that replaces or re-sorts the list clears the multi-selection,
   so a kill of the multi-selection targets the processes the user selected. *)
C38_SelectionDenotesSameProcesses ==
    []SelectionCurrent /\ [][SelectionClearedOnChange]_tuiVars

C38_Witness ==
    /\ attempts # <<>>
    /\ Len(attempts) = 2
    /\ app.selected = {}
    /\ app.sort_column = "Pid"

====
